---------------------------- MODULE Spec2Model ----------------------------
(***************************************************************************)
(* Orchestration core of KinOS: PhaseService (phase hysteresis),           *)
(* AgentService (agent registry, worker threads, start retry) and          *)
(* TeamService (phase filtering and the concurrency-bounded admission      *)
(* loop).  Each component has its own specification over the shared        *)
(* variables; the variables of the other components stay unchanged.        *)
(***************************************************************************)
EXTENDS Integers, Sequences, FiniteSets, TLC

VARIABLES
    \* ---- PhaseService (src/services/phase_service.py) ----
    current_phase,      \* self.current_phase
    total_tokens,       \* self.total_tokens
    last_transition,    \* self.last_transition (a reading of the clock)
    now,                \* the clock read by datetime.now()
    transition_log,     \* number of "Phase transition" entries logged
    phase_call,         \* the last PhaseService call and what it returned
    token_limit,        \* self.MODEL_TOKEN_LIMIT as the instance reads it
    \* ---- AgentService (src/services/agent_service.py) ----
    agents,             \* self.agents: agent key -> agent object
    agent_threads,      \* self.agent_threads: agent name -> thread
    threads,            \* every worker thread created so far
    shutting_down,      \* self._shutting_down
    reg_call,           \* the last toggle_agent call and what it returned
    retry,              \* the activation of _start_agent_with_retry
    \* ---- TeamService (src/services/team_service.py) ----
    predefined_teams,   \* self.predefined_teams
    team_pc,            \* where the start_team activation stands
    filtered_agents,    \* filtered_agents of start_team
    waiting_agents,     \* waiting_agents of _start_agents_with_pool
    active_agents,      \* active_agents of _start_agents_with_pool
    started_agents,     \* started_agents of _start_agents_with_pool
    futures,            \* futures: the starts submitted to the executor
    team_result,        \* what start_team returned
    stop_log,           \* the agents start_team called toggle_agent 'stop' for
    collections,        \* self._active_agents, _waiting_agents, _started_agents
    cleanup_errors,     \* the agents "Error stopping agent" was logged for
    \* ---- AgentService: the monitor and the health score ----
    system_metrics,     \* system_metrics of _monitor_agents
    health_score,       \* what _calculate_system_health returned
    monitor_call,       \* what the last cycle of _monitor_agents did
    \* ---- RateLimiter (one per agent, agents/utils/rate_limiter) ----
    rate_limiter,       \* max_requests, time_window and the request log
    limiter_env,        \* the clock it reads and every request ever recorded
    limiter_call,       \* the last call of the limiter and what it returned
    \* ---- threads that are inside a toggle_agent call ----
    callers,            \* caller -> where it is in toggle_agent, and its name
    \* ---- worker threads inside _run_agent_wrapper ----
    wrappers            \* worker -> its place in the retry loop and its counters

phase_vars == <<current_phase, total_tokens, last_transition, now,
                transition_log, phase_call, token_limit>>

registry_vars == <<agents, agent_threads, threads, shutting_down, reg_call,
                   retry>>

team_vars == <<predefined_teams, team_pc, filtered_agents, waiting_agents,
               active_agents, started_agents, futures, team_result, stop_log,
               collections, cleanup_errors>>

health_vars == <<system_metrics, health_score, monitor_call>>

limiter_vars == <<rate_limiter, limiter_env, limiter_call>>

call_vars == <<callers>>

worker_vars == <<wrappers>>

vars == <<current_phase, total_tokens, last_transition, now,
          transition_log, phase_call, token_limit,
          agents, agent_threads, threads, shutting_down, reg_call, retry,
          predefined_teams, team_pc, filtered_agents, waiting_agents,
          active_agents, started_agents, futures, team_result, stop_log,
          collections, cleanup_errors,
          system_metrics, health_score, monitor_call,
          rate_limiter, limiter_env, limiter_call,
          callers, wrappers>>

(***************************************************************************)
(* Bounds                                                                  *)
(***************************************************************************)
\* token counts are taken within MaxDelta of each threshold and of zero
MaxDelta == 1
\* number of clock readings in one behaviour
MaxClock == 4
\* worker threads created in one behaviour
MaxThreads == 2
\* size of the largest team
MaxTeamSize == 5

Max(a, b) == IF a >= b THEN a ELSE b
Min(a, b) == IF a <= b THEN a ELSE b

(***************************************************************************)
(* PhaseService                                                            *)
(***************************************************************************)
\* class attribute MODEL_TOKEN_LIMIT
MODEL_TOKEN_LIMIT == 128000
\* CONVERGENCE_THRESHOLD = 0.60 and EXPANSION_THRESHOLD = 0.50; the code
\* compares usage_percent with THRESHOLD * 100, so both are kept in percent
CONVERGENCE_THRESHOLD == 60
EXPANSION_THRESHOLD == 50
\* int(MODEL_TOKEN_LIMIT * THRESHOLD)
CONVERGENCE_TOKENS == (MODEL_TOKEN_LIMIT * CONVERGENCE_THRESHOLD) \div 100
EXPANSION_TOKENS == (MODEL_TOKEN_LIMIT * EXPANSION_THRESHOLD) \div 100

ProjectPhase == {"EXPANSION", "CONVERGENCE"}

\* the limits an instance can read: the class attribute, or a value <= 0
\* put in its place
MaxBudget == 1
MisconfiguredBudgets == -MaxBudget .. 0
BudgetInputs == {MODEL_TOKEN_LIMIT} \cup MisconfiguredBudgets

\* the token counts handed to determine_phase
TokenInputs ==
    (-MaxDelta .. MaxDelta)
    \cup {EXPANSION_TOKENS + d : d \in -MaxDelta .. MaxDelta}
    \cup {CONVERGENCE_TOKENS + d : d \in -MaxDelta .. MaxDelta}
    \cup {(EXPANSION_TOKENS + CONVERGENCE_TOKENS) \div 2}
    \cup {MODEL_TOKEN_LIMIT + d : d \in -MaxDelta .. MaxDelta}

\* the token count stored as given
StoredTokensRaw(t) == t

\* self.total_tokens = max(0, total_tokens)
StoredTokens(t) == Max(0, t)

\* usage_percent = (self.total_tokens / MODEL_TOKEN_LIMIT) * 100, compared
\* with a threshold in percent; MODEL_TOKEN_LIMIT > 0, so the comparison of
\* the quotient is the comparison of the cross products
UsageAtLeast(tokens, pct) == tokens * 100 >= pct * MODEL_TOKEN_LIMIT

\* the ">=" of the convergence test written as ">"
NewPhaseStrict(old, t) ==
    IF StoredTokens(t) * 100 > CONVERGENCE_THRESHOLD * MODEL_TOKEN_LIMIT
        THEN "CONVERGENCE"
    ELSE IF ~UsageAtLeast(StoredTokens(t), EXPANSION_THRESHOLD) THEN "EXPANSION"
    ELSE old

\* the threshold test without the band: below 60% the phase is EXPANSION
NewPhaseNoBand(old, t) ==
    IF UsageAtLeast(StoredTokens(t), CONVERGENCE_THRESHOLD) THEN "CONVERGENCE"
    ELSE "EXPANSION"

\* the three-way threshold test of determine_phase
NewPhase(old, t) ==
    IF UsageAtLeast(StoredTokens(t), CONVERGENCE_THRESHOLD) THEN "CONVERGENCE"
    ELSE IF ~UsageAtLeast(StoredTokens(t), EXPANSION_THRESHOLD) THEN "EXPANSION"
    ELSE old

\* a transition logged on every call
PhaseChangedAlways(old, new) == TRUE

\* "if new_phase != old_phase": the branch that stamps last_transition and
\* writes the transition log
PhaseChanged(old, new) == new # old

\* what a PhaseService call leaves behind: the operation, its argument, the
\* phase and the message it returned, whether it repeats the previous call,
\* and the dictionary of get_status_info
PhaseCall(op, arg, ret, msg, is_rep, info, seq) ==
    [op |-> op, arg |-> arg, ret |-> ret, msg |-> msg, rep |-> is_rep,
     info |-> info, seq |-> seq]

\* no dictionary returned
NoInfo == [returned |-> FALSE]

\* the text the returned message starts with
PhaseMessage(old, t) ==
    IF UsageAtLeast(StoredTokens(t), CONVERGENCE_THRESHOLD)
        THEN "Convergence needed"
    ELSE IF ~UsageAtLeast(StoredTokens(t), EXPANSION_THRESHOLD)
        THEN "Expansion phase"
    ELSE "Maintaining current phase"

\* determine_phase(total_tokens).  The limit the instance reads is the class
\* attribute or a value that replaced it.  With the limit 0 the division
\* raises ZeroDivisionError after total_tokens was stored, and the except
\* clause returns EXPANSION with "Error determining phase: ...".  With a
\* negative limit nothing raises: usage_percent is <= 0, so the test
\* "usage_percent < EXPANSION_THRESHOLD * 100" selects EXPANSION.
determine_phase(t) ==
    /\ now < MaxClock
    /\ token_limit \in BudgetInputs
    /\ IF token_limit = 0
          THEN /\ total_tokens' = StoredTokens(t)
               /\ UNCHANGED <<current_phase, last_transition, transition_log>>
               /\ phase_call' = PhaseCall("determine_phase", t, "EXPANSION",
                                          "Error determining phase",
                                          FALSE, NoInfo, 0)
          ELSE LET old_phase == current_phase
                   new_phase == IF token_limit < 0 THEN "EXPANSION"
                                ELSE NewPhase(current_phase, t)
                   message == IF token_limit < 0 THEN "Expansion phase"
                              ELSE PhaseMessage(current_phase, t)
               IN  /\ total_tokens' = StoredTokens(t)
                   /\ current_phase' = new_phase
                   /\ IF PhaseChanged(old_phase, new_phase)
                         THEN /\ last_transition' = now + 1
                              /\ transition_log' = transition_log + 1
                         ELSE UNCHANGED <<last_transition, transition_log>>
                   /\ phase_call' =
                         PhaseCall("determine_phase", t, new_phase, message,
                                   phase_call.op = "determine_phase"
                                       /\ phase_call.arg = t,
                                   NoInfo, 0)
    /\ now' = now + 1
    /\ UNCHANGED token_limit
    /\ UNCHANGED registry_vars
    /\ UNCHANGED team_vars
    /\ UNCHANGED <<health_vars, limiter_vars, call_vars, worker_vars>>

\* force_phase(phase): ProjectPhase(phase.upper()) raises ValueError for a
\* string that names no phase
force_phase(p) ==
    /\ now < MaxClock
    /\ IF p \in ProjectPhase
          THEN /\ current_phase' = p
               /\ IF p # current_phase
                     THEN last_transition' = now + 1
                     ELSE UNCHANGED last_transition
               /\ phase_call' = PhaseCall("force_phase", 0, "True", "", FALSE,
                                          NoInfo, 0)
          ELSE /\ UNCHANGED <<current_phase, last_transition>>
               /\ phase_call' = PhaseCall("force_phase", 0, "False", "", FALSE,
                                          NoInfo, 0)
    /\ now' = now + 1
    /\ UNCHANGED <<total_tokens, transition_log, token_limit>>
    /\ UNCHANGED registry_vars
    /\ UNCHANGED team_vars
    /\ UNCHANGED <<health_vars, limiter_vars, call_vars, worker_vars>>

\* __init__; limit is what self.MODEL_TOKEN_LIMIT evaluates to
InitPhaseWith(limit) ==
    /\ current_phase = "EXPANSION"
    /\ last_transition = 0
    /\ total_tokens = 0
    /\ now = 0
    /\ transition_log = 0
    /\ phase_call = PhaseCall("init", 0, "EXPANSION", "", FALSE, NoInfo, 0)
    /\ token_limit = limit

InitPhase == InitPhaseWith(MODEL_TOKEN_LIMIT)

DeterminePhaseStep == \E t \in TokenInputs : determine_phase(t)
ForcePhaseStep == \E p \in ProjectPhase \cup {"INVALID"} : force_phase(p)

NextPhase == DeterminePhaseStep \/ ForcePhaseStep


(***************************************************************************)
(* AgentService: the agent registry and its worker threads                 *)
(***************************************************************************)
\* the names callers pass to the registry, and how str.lower() and
\* str.replace('agent', '') act on them
AgentNames == {"A", "bagent"}
Lower(n) == IF n = "A" THEN "a" ELSE n
RemoveAgentWord(n) == IF n = "bagent" THEN "b" ELSE n

\* agent_key = agent_name.lower().replace('agent', '').strip()
AgentKey(n) == RemoveAgentWord(Lower(n))

\* how the construction and the start of an agent may end
StartOutcomes == {"ok", "create_raises", "start_raises", "known_error_raises"}

\* agent.start() raised.  For "known_error_raises" the
\* text of the exception holds one of known_errors; the handler then skips
\* the log entry and returns False like for any other exception
StartRaised(outcome) == outcome \in {"start_raises", "known_error_raises"}

\* every way a step of toggle_agent may fail: the construction of the
\* agent, agent.start(), thread.start() and agent.stop()
ToggleOutcomes == StartOutcomes \cup {"launch_raises", "stop_raises"}

\* the statement of toggle_agent an exception comes from ("none": the call
\* meets no exception)
ExceptionSite(ag, name, action, outcome) ==
    LET key == AgentKey(name)
        found == key \in DOMAIN ag
    IN  IF ~found
           THEN IF action = "start" /\ outcome = "create_raises" THEN "create"
                ELSE IF action = "start" /\ StartRaised(outcome) THEN "start"
                ELSE IF action = "start" /\ outcome = "launch_raises"
                    THEN "launch"
                ELSE "none"
        ELSE IF action = "start" /\ ~ag[key].running
           THEN IF StartRaised(outcome) THEN "start"
                ELSE IF outcome = "launch_raises" THEN "launch"
                ELSE "none"
        ELSE IF action = "stop" /\ ag[key].running /\ outcome = "stop_raises"
           THEN "stop"
        ELSE "none"

\* only the try block around agent.start() and thread.start()
CaughtInStartBranch(site) == site \in {"start", "launch"}

\* the exceptions a handler of toggle_agent catches: "except Exception" of
\* the 'start' branch, and "except Exception" around the whole body
Caught(site) == site \in {"start", "launch"} \/ site \in {"create", "stop"}

\* default max_attempts of _start_agent_with_retry
max_attempts == 3

Restrict(f, S) == [x \in S |-> f[x]]

\* AiderAgent(agent_config) followed by _init_state
NewAgent ==
    [running |-> FALSE, error_count |-> 0, consecutive_no_changes |-> 0]

\* AgentBase.start: marks the agent running
AgentStart(agent) == [agent EXCEPT !.running = TRUE]

\* AiderAgent.stop: "pass"
AgentStop(agent) == agent

\* threading.Thread(target=self._run_agent_wrapper, args=(name, agent)):
\* detached is set once the agent object has left the registry
NewThread(name, key) ==
    [key |-> key, alive |-> TRUE, detached |-> FALSE]

\* a thread object whose start() raised: it was never alive
UnstartedThread(name, key) ==
    [key |-> key, alive |-> FALSE, detached |-> FALSE]

\* a thread whose _run_agent_wrapper has returned: is_alive() is false and
\* nothing else of it is read again
DeadThread == [key |-> "", alive |-> FALSE, detached |-> FALSE]

ToggleResult(ag, at, th, ret, already, blocked) ==
    [agents |-> ag, agent_threads |-> at, threads |-> th, ret |-> ret,
     already |-> already, blocked |-> blocked]

\* a stop that reports success whatever the flag says
StopResultTrue(agent) == TRUE

\* "return not agent.running" at the end of the 'stop' branch
StopResult(agent) == ~agent.running

\* toggle_agent with the "if agent.running: return True" test left out
ToggleAgentNoRunningTest(ag, at, th, name, action, outcome) ==
    LET key == AgentKey(name)
        found == key \in DOMAIN ag
    IN  IF ~found /\ action # "start"
            THEN ToggleResult(ag, at, th, FALSE, FALSE, FALSE)
        ELSE IF ~found /\ outcome = "create_raises"
            THEN ToggleResult(ag, at, th, FALSE, FALSE, FALSE)
        ELSE
        LET ag2 == IF found THEN ag ELSE (key :> NewAgent) @@ ag
            agent == ag2[key]
        IN  IF action = "start" THEN
                IF StartRaised(outcome)
                    THEN ToggleResult(ag2, at, th, FALSE, FALSE, FALSE)
                ELSE ToggleResult([ag2 EXCEPT ![key] = AgentStart(agent)],
                                  (name :> Len(th) + 1) @@ at,
                                  Append(th, NewThread(name, key)),
                                  AgentStart(agent).running, agent.running,
                                  FALSE)
            ELSE IF action = "stop" THEN
                IF ~agent.running
                    THEN ToggleResult(ag2, at, th, TRUE, TRUE, FALSE)
                ELSE IF name \in DOMAIN at
                    THEN ToggleResult(
                             [ag2 EXCEPT ![key] = AgentStop(agent)],
                             Restrict(at, DOMAIN at \ {name}), th,
                             StopResult(AgentStop(agent)), FALSE,
                             th[at[name]].alive)
                ELSE ToggleResult([ag2 EXCEPT ![key] = AgentStop(agent)],
                                  at, th, StopResult(AgentStop(agent)), FALSE,
                                  FALSE)
            ELSE ToggleResult(ag2, at, th, FALSE, FALSE, FALSE)

\* toggle_agent(agent_name, action, mission_dir) applied to the registry
\* (ag, at, th); outcome says how construction and start of the agent end.
\* blocked: the call is inside thread.join() on a worker that is alive.
ToggleAgent(ag, at, th, name, action, outcome) ==
    LET key == AgentKey(name)
        found == key \in DOMAIN ag
    IN  IF ~found /\ action # "start"
            THEN ToggleResult(ag, at, th, FALSE, FALSE, FALSE)
        ELSE IF ~found /\ outcome = "create_raises"
            THEN ToggleResult(ag, at, th, FALSE, FALSE, FALSE)
        ELSE
        LET ag2 == IF found THEN ag ELSE (key :> NewAgent) @@ ag
            agent == ag2[key]
        IN  IF action = "start" THEN
                IF agent.running
                    THEN ToggleResult(ag2, at, th, TRUE, TRUE, FALSE)
                ELSE IF StartRaised(outcome)
                    THEN ToggleResult(ag2, at, th, FALSE, FALSE, FALSE)
                ELSE IF outcome = "launch_raises"
                    THEN ToggleResult([ag2 EXCEPT ![key] = AgentStart(agent)],
                                      (name :> Len(th) + 1) @@ at,
                                      Append(th, UnstartedThread(name, key)),
                                      FALSE, FALSE, FALSE)
                ELSE ToggleResult([ag2 EXCEPT ![key] = AgentStart(agent)],
                                  (name :> Len(th) + 1) @@ at,
                                  Append(th, NewThread(name, key)),
                                  AgentStart(agent).running, FALSE, FALSE)
            ELSE IF action = "stop" THEN
                IF ~agent.running
                    THEN ToggleResult(ag2, at, th, TRUE, TRUE, FALSE)
                ELSE IF outcome = "stop_raises"
                    THEN ToggleResult(ag2, at, th, FALSE, FALSE, FALSE)
                ELSE IF name \in DOMAIN at
                    THEN ToggleResult(
                             [ag2 EXCEPT ![key] = AgentStop(agent)],
                             Restrict(at, DOMAIN at \ {name}), th,
                             StopResult(AgentStop(agent)), FALSE,
                             th[at[name]].alive)
                ELSE ToggleResult([ag2 EXCEPT ![key] = AgentStop(agent)],
                                  at, th, StopResult(AgentStop(agent)), FALSE,
                                  FALSE)
            ELSE ToggleResult(ag2, at, th, FALSE, FALSE, FALSE)

\* the record of a toggle_agent call; seq tells one call from the next,
\* site is the statement that raised and raised tells whether the
\* exception left the call
RegCall(name, op, ret, already, site) ==
    [name |-> name, op |-> op, ret |-> ret, already |-> already,
     site |-> site, raised |-> site # "none" /\ ~Caught(site),
     seq |-> 1 - reg_call.seq]

toggle_agent(name, action, outcome) ==
    LET r == ToggleAgent(agents, agent_threads, threads, name, action,
                         outcome)
    IN  /\ ~r.blocked
        /\ Len(r.threads) <= MaxThreads
        /\ agents' = r.agents
        /\ agent_threads' = r.agent_threads
        /\ threads' = r.threads
        /\ reg_call' = RegCall(name, action, r.ret, r.already,
                               ExceptionSite(agents, name, action, outcome))
        /\ UNCHANGED <<shutting_down, retry>>
        /\ UNCHANGED <<phase_vars, health_vars, limiter_vars, call_vars, worker_vars>>
    /\ UNCHANGED team_vars

\* the "Start agent threads" loop of start_all_agents over the agents in
\* todo; start() raises for the agents in failing
RECURSIVE StartAllFrom(_, _, _, _, _)
StartAllFrom(todo, failing, ag, at, th) ==
    IF todo = {} THEN [agents |-> ag, agent_threads |-> at, threads |-> th]
    ELSE LET k == CHOOSE x \in todo : TRUE
         IN  IF k \in failing
                THEN StartAllFrom(todo \ {k}, failing, ag, at, th)
                ELSE StartAllFrom(todo \ {k}, failing,
                                  [ag EXCEPT ![k] = AgentStart(ag[k])],
                                  (k :> Len(th) + 1) @@ at,
                                  Append(th, NewThread(k, k)))

start_all_agents(failing) ==
    LET r == StartAllFrom(DOMAIN agents, failing, agents, agent_threads,
                          threads)
    IN  /\ Len(r.threads) <= MaxThreads
        /\ agents' = r.agents
        /\ agent_threads' = r.agent_threads
        /\ threads' = r.threads
        /\ UNCHANGED reg_call
        /\ UNCHANGED <<shutting_down, retry>>
        /\ UNCHANGED <<phase_vars, health_vars, limiter_vars, call_vars, worker_vars>>
    /\ UNCHANGED team_vars

\* stop_all_agents returns once every thread of agent_threads is joined
stop_all_agents ==
    /\ \A n \in DOMAIN agent_threads : ~threads[agent_threads[n]].alive
    /\ shutting_down' = TRUE
    /\ agents' = <<>>
    /\ agent_threads' = <<>>
    /\ threads' = [i \in DOMAIN threads |->
                      IF threads[i].alive
                         THEN [threads[i] EXCEPT !.detached = TRUE]
                         ELSE threads[i]]
    /\ UNCHANGED reg_call
    /\ UNCHANGED retry
    /\ UNCHANGED <<phase_vars, health_vars, limiter_vars, call_vars, worker_vars>>
    /\ UNCHANGED team_vars

\* _restart_agent(name, agent): the new thread is started and not recorded
restart_agent(key, outcome) ==
    /\ key \in DOMAIN agents
    /\ IF outcome = "start_raises"
          THEN /\ agents' = [agents EXCEPT ![key] = AgentStop(agents[key])]
               /\ UNCHANGED threads
          ELSE /\ Len(threads) < MaxThreads
               /\ agents' = [agents EXCEPT
                                ![key] = AgentStart(AgentStop(agents[key]))]
               /\ threads' = Append(threads, NewThread(key, key))
    /\ UNCHANGED reg_call
    /\ UNCHANGED <<agent_threads, shutting_down, retry>>
    /\ UNCHANGED <<phase_vars, health_vars, limiter_vars, call_vars, worker_vars>>
    /\ UNCHANGED team_vars

\* _handle_agent_crash(agent_name, agent)
handle_agent_crash(key, outcome) ==
    /\ key \in DOMAIN agents
    /\ IF outcome = "start_raises"
          THEN /\ agents' = [agents EXCEPT ![key] = AgentStop(agents[key])]
               /\ UNCHANGED <<threads, agent_threads>>
          ELSE /\ Len(threads) < MaxThreads
               /\ agents' = [agents EXCEPT
                                ![key] = AgentStart(AgentStop(agents[key]))]
               /\ threads' = Append(threads, NewThread(key, key))
               /\ agent_threads' = (key :> Len(threads) + 1) @@ agent_threads
    /\ UNCHANGED reg_call
    /\ UNCHANGED <<shutting_down, retry>>
    /\ UNCHANGED <<phase_vars, health_vars, limiter_vars, call_vars, worker_vars>>
    /\ UNCHANGED team_vars

\* _run_agent_wrapper: agent.run() returns (AiderAgent.run is one cycle and
\* catches what the cycle raises), the loop is left by "break" and the
\* thread ends; agent.running is not written
worker_run_returns(i) ==
    /\ i \in DOMAIN threads
    /\ threads[i].alive
    /\ threads' = [threads EXCEPT ![i] = DeadThread]
    /\ UNCHANGED <<agents, agent_threads, shutting_down, reg_call, retry>>
    /\ UNCHANGED <<phase_vars, health_vars, limiter_vars, call_vars, worker_vars>>
    /\ UNCHANGED team_vars

\* AgentState of one start: mark_active counts an attempt, can_retry holds
\* while fewer than max_attempts attempts were made
NewAgentState == [status |-> "pending", attempts |-> 0]
mark_active(st) == [status |-> "active", attempts |-> st.attempts + 1]
mark_completed(st) == [st EXCEPT !.status = "completed"]
mark_error(st) == [st EXCEPT !.status = "error"]
can_retry(st) == st.attempts < max_attempts

IdleRetry ==
    [pc |-> "idle", name |-> "", attempt |-> 0, calls |-> 0,
     state |-> NewAgentState, ret |-> FALSE]

\* _start_agent_with_retry(agent_name, agent_state) is called
start_agent_with_retry(name) ==
    /\ retry.pc = "idle"
    /\ retry' = [IdleRetry EXCEPT !.pc = "loop", !.name = name]
    /\ UNCHANGED <<agents, agent_threads, threads, shutting_down, reg_call>>
    /\ UNCHANGED <<phase_vars, health_vars, limiter_vars, call_vars, worker_vars>>
    /\ UNCHANGED team_vars

\* AgentService._start_agent(agent_name): the call written there is
\* self.agent_service.toggle_agent(agent_name, 'start'), and __init__ of
\* AgentService binds no attribute agent_service; the AttributeError is
\* caught by "except Exception", False is returned and toggle_agent is not
\* reached
start_agent(ag, at, th, name) ==
    ToggleResult(ag, at, th, FALSE, FALSE, FALSE)

\* one pass of "for attempt in range(max_attempts)": mark_active, then
\* _start_agent; a failed pass ends in the backoff sleep, in mark_error, or
\* in the end of the loop
retry_attempt ==
    /\ retry.pc = "loop"
    /\ LET r == start_agent(agents, agent_threads, threads, retry.name)
           st == mark_active(retry.state)
           base == [retry EXCEPT !.calls = @ + 1]
       IN  /\ agents' = r.agents
           /\ agent_threads' = r.agent_threads
           /\ threads' = r.threads
           /\ UNCHANGED reg_call
           /\ retry' =
                IF r.ret
                   THEN [base EXCEPT !.state = mark_completed(st),
                                     !.ret = TRUE, !.pc = "done"]
                ELSE IF can_retry(st)
                   THEN IF retry.attempt + 1 < max_attempts
                           THEN [base EXCEPT !.state = st,
                                             !.attempt = @ + 1]
                           ELSE [base EXCEPT !.state = st, !.ret = FALSE,
                                             !.pc = "done"]
                ELSE [base EXCEPT !.state = mark_error(st), !.ret = FALSE,
                                  !.pc = "done"]
    /\ UNCHANGED shutting_down
    /\ UNCHANGED <<phase_vars, health_vars, limiter_vars, call_vars, worker_vars>>
    /\ UNCHANGED team_vars

\* the thresholds of AgentBase.is_healthy
ERROR_THRESHOLD == 5
NO_CHANGE_THRESHOLD == 5

\* AgentBase.is_healthy
is_healthy(agent) ==
    /\ agent.error_count <= ERROR_THRESHOLD
    /\ agent.consecutive_no_changes <= NO_CHANGE_THRESHOLD

\* get_agent_status(agent_name) reporting the health of _get_default_status
get_agent_status_default_health(name) ==
    IF Lower(name) \notin DOMAIN agents
       THEN [running |-> FALSE, status |-> "not_initialized",
             has_health |-> FALSE, is_healthy |-> FALSE]
       ELSE [running |-> agents[Lower(name)].running,
             status |-> IF agents[Lower(name)].running
                           THEN "active" ELSE "inactive",
             has_health |-> TRUE,
             is_healthy |-> TRUE]

\* get_agent_status(agent_name): the key is agent_name.lower()
get_agent_status(name) ==
    IF Lower(name) \notin DOMAIN agents
       THEN [running |-> FALSE, status |-> "not_initialized",
             has_health |-> FALSE, is_healthy |-> FALSE]
       ELSE [running |-> agents[Lower(name)].running,
             status |-> IF agents[Lower(name)].running
                           THEN "active" ELSE "inactive",
             has_health |-> TRUE,
             is_healthy |-> is_healthy(agents[Lower(name)])]

\* ---- toggle_agent called from several threads -------------------------
\* toggle_agent takes no lock (self._cleanup_lock is taken by
\* _cleanup_resources alone), so a second caller can run between the test
\* "if agent.running" of a caller and its agent.start()
MaxCallers == 2
Callers == 1 .. MaxCallers

IdleCaller == [pc |-> "idle", name |-> "", ret |-> FALSE]

InitCallers == callers = [c \in Callers |-> IdleCaller]

\* toggle_agent(name, 'start') up to the test of agent.running: the agent is
\* looked up, created and stored if it is not there; a running agent makes
\* the call return True
toggle_start_begin(c, name) ==
    LET key == AgentKey(name)
        ag2 == IF key \in DOMAIN agents THEN agents
               ELSE (key :> NewAgent) @@ agents
    IN  /\ callers[c].pc = "idle"
        /\ agents' = ag2
        /\ callers' = [callers EXCEPT ![c] =
                          IF ag2[key].running
                             THEN [pc |-> "done", name |-> name, ret |-> TRUE]
                             ELSE [pc |-> "checked", name |-> name,
                                   ret |-> FALSE]]
        /\ UNCHANGED <<agent_threads, threads, shutting_down, reg_call,
                       retry>>
        /\ UNCHANGED <<phase_vars, health_vars, limiter_vars, worker_vars>>
        /\ UNCHANGED team_vars

\* the rest of the 'start' branch: agent.start(), the thread is created,
\* recorded in agent_threads and started, agent.running is returned
toggle_start_launch(c) ==
    LET name == callers[c].name
        key == AgentKey(name)
    IN  /\ callers[c].pc = "checked"
        /\ Len(threads) < MaxThreads
        /\ agents' = [agents EXCEPT ![key] = AgentStart(agents[key])]
        /\ threads' = Append(threads, NewThread(name, key))
        /\ agent_threads' = (name :> Len(threads) + 1) @@ agent_threads
        /\ callers' = [callers EXCEPT ![c] =
                          [pc |-> "done", name |-> name,
                           ret |-> AgentStart(agents[key]).running]]
        /\ UNCHANGED <<shutting_down, reg_call, retry>>
        /\ UNCHANGED <<phase_vars, health_vars, limiter_vars, worker_vars>>
        /\ UNCHANGED team_vars

\* the call has returned; the thread can call again
toggle_return(c) ==
    /\ callers[c].pc = "done"
    /\ callers' = [callers EXCEPT ![c] = IdleCaller]
    /\ UNCHANGED registry_vars
    /\ UNCHANGED <<phase_vars, health_vars, limiter_vars, worker_vars>>
    /\ UNCHANGED team_vars

ToggleStartBeginStep ==
    \E c \in Callers, name \in AgentNames : toggle_start_begin(c, name)
ToggleStartLaunchStep == \E c \in Callers : toggle_start_launch(c)
ToggleReturnStep == \E c \in Callers : toggle_return(c)

\* ---- _run_agent_wrapper: the body of a worker thread --------------------
MaxWorkers == 2
Workers == 1 .. MaxWorkers

\* max_retries of _run_agent_wrapper
max_retries == 3

\* how agent.run() may end
RunOutcomes == {"returns", "raises"}

\* the wait computed from the retry count of the failure before it
WaitTimeBeforeIncrement(retry_count) == Min(30, 2 ^ (retry_count - 1))

\* wait_time = min(30, 2 ** retry_count), after "retry_count += 1"
WaitTime(retry_count) == Min(30, 2 ^ retry_count)

\* a thread that has not entered the wrapper.  runs, raised and returned
\* count the calls of agent.run() and how they ended, waits lists the
\* arguments of time.sleep, fatal tells whether the FATAL entry was logged,
\* signalled whether the stop signal came while the thread was in
\* time.sleep
NewWrapper ==
    [pc |-> "idle", retry_count |-> 0, runs |-> 0, raised |-> 0,
     returned |-> 0, waits |-> <<>>, fatal |-> FALSE, signalled |-> FALSE]

InitWorkers == wrappers = [w \in Workers |-> NewWrapper]

\* thread.start(): the wrapper is entered, retry_count = 0
wrapper_begin(w) ==
    /\ wrappers[w].pc = "idle"
    /\ wrappers' = [wrappers EXCEPT ![w].pc = "loop"]
    /\ UNCHANGED registry_vars
    /\ UNCHANGED <<phase_vars, health_vars, limiter_vars, call_vars>>
    /\ UNCHANGED team_vars

\* one pass of "while retry_count < max_retries": agent.run() returns and
\* the loop is left by break, or it raises, retry_count is incremented and
\* time.sleep(wait_time) is entered.  Nothing in the loop reads
\* self._shutting_down or agent.running.
wrapper_run(w, outcome) ==
    /\ wrappers[w].pc = "loop"
    /\ wrappers' = [wrappers EXCEPT ![w] =
          IF wrappers[w].retry_count < max_retries
             THEN IF outcome = "returns"
                     THEN [@ EXCEPT !.runs = @ + 1, !.returned = @ + 1,
                                    !.pc = "after_loop"]
                     ELSE [@ EXCEPT !.runs = @ + 1, !.raised = @ + 1,
                                    !.retry_count = @ + 1,
                                    !.waits = Append(@, WaitTime(
                                                wrappers[w].retry_count + 1)),
                                    !.pc = "sleep"]
             ELSE [@ EXCEPT !.pc = "after_loop"]]
    /\ UNCHANGED registry_vars
    /\ UNCHANGED <<phase_vars, health_vars, limiter_vars, call_vars>>
    /\ UNCHANGED team_vars

\* time.sleep(wait_time) returns after wait_time seconds
wrapper_sleep_returns(w) ==
    /\ wrappers[w].pc = "sleep"
    /\ wrappers' = [wrappers EXCEPT ![w].pc = "loop"]
    /\ UNCHANGED registry_vars
    /\ UNCHANGED <<phase_vars, health_vars, limiter_vars, call_vars>>
    /\ UNCHANGED team_vars

\* "if retry_count == max_retries": the FATAL entry, and the thread ends
wrapper_exit(w) ==
    /\ wrappers[w].pc = "after_loop"
    /\ wrappers' = [wrappers EXCEPT
                       ![w].fatal = (wrappers[w].retry_count = max_retries),
                       ![w].pc = "done"]
    /\ UNCHANGED registry_vars
    /\ UNCHANGED <<phase_vars, health_vars, limiter_vars, call_vars>>
    /\ UNCHANGED team_vars

\* stop_all_agents up to its thread.join(): self._shutting_down.set() and
\* agent.running = False for every agent; the call then waits in join for
\* the workers
stop_signal ==
    /\ ~shutting_down
    /\ shutting_down' = TRUE
    /\ agents' = [k \in DOMAIN agents |-> [agents[k] EXCEPT !.running = FALSE]]
    /\ wrappers' = [w \in Workers |->
                       [wrappers[w] EXCEPT
                           !.signalled = (wrappers[w].pc = "sleep")]]
    /\ UNCHANGED <<agent_threads, threads, reg_call, retry>>
    /\ UNCHANGED <<phase_vars, health_vars, limiter_vars, call_vars>>
    /\ UNCHANGED team_vars

WrapperBeginStep == \E w \in Workers : wrapper_begin(w)
WrapperRunStep ==
    \E w \in Workers, outcome \in RunOutcomes : wrapper_run(w, outcome)
WrapperSleepReturnsStep == \E w \in Workers : wrapper_sleep_returns(w)
WrapperExitStep == \E w \in Workers : wrapper_exit(w)
StopSignalStep == stop_signal

NextWorker ==
    \/ WrapperBeginStep
    \/ WrapperRunStep
    \/ WrapperSleepReturnsStep
    \/ WrapperExitStep
    \/ StopSignalStep

InitRegistry ==
    /\ agents = <<>>
    /\ agent_threads = <<>>
    /\ threads = <<>>
    /\ shutting_down = FALSE
    /\ reg_call = [name |-> "", op |-> "init", ret |-> FALSE, already |-> FALSE,
                  site |-> "none", raised |-> FALSE, seq |-> 0]
    /\ retry = IdleRetry

ToggleAgentStep ==
    \E name \in AgentNames, action \in {"start", "stop", "restart"},
       outcome \in StartOutcomes :
        toggle_agent(name, action, outcome)
\* toggle_agent with every failure a step of it can meet
ToggleCallStep ==
    \E name \in AgentNames, action \in {"start", "stop", "restart"},
       outcome \in ToggleOutcomes :
        toggle_agent(name, action, outcome)
StartAllAgentsStep == \E failing \in SUBSET DOMAIN agents : start_all_agents(failing)
StopAllAgentsStep == stop_all_agents
RestartAgentStep ==
    \E key \in DOMAIN agents, outcome \in {"ok", "start_raises"} :
        restart_agent(key, outcome)
HandleAgentCrashStep ==
    \E key \in DOMAIN agents, outcome \in {"ok", "start_raises"} :
        handle_agent_crash(key, outcome)
WorkerRunReturnsStep == \E i \in DOMAIN threads : worker_run_returns(i)
StartWithRetryStep == \E name \in AgentNames : start_agent_with_retry(name)
RetryAttemptStep == retry_attempt

NextConcurrent ==
    \/ ToggleStartBeginStep
    \/ ToggleStartLaunchStep
    \/ ToggleReturnStep
    \/ WorkerRunReturnsStep

NextRegistry ==
    \/ ToggleAgentStep
    \/ StartAllAgentsStep
    \/ StopAllAgentsStep
    \/ RestartAgentStep
    \/ HandleAgentCrashStep
    \/ WorkerRunReturnsStep

\* toggle_agent calls with every failure, next to the worker threads ending
\* and stop_all_agents
NextToggle ==
    \/ ToggleCallStep
    \/ WorkerRunReturnsStep
    \/ StopAllAgentsStep

\* _start_agent_with_retry next to the registry calls it competes with
NextRetry ==
    \/ StartWithRetryStep
    \/ RetryAttemptStep
    \/ ToggleAgentStep
    \/ WorkerRunReturnsStep

(***************************************************************************)
(* Python float arithmetic (IEEE-754 binary64, round to nearest, ties to   *)
(* even) as _calculate_system_health uses it.  A float is a sign and a     *)
(* magnitude; the magnitude is a natural number counted in units of        *)
(* 2^-(LimbBits * ScaleLimbs), written as a little-endian sequence of      *)
(* limbs below LimbBase, with no zero limb at the top.                     *)
(***************************************************************************)
LimbBits == 14
LimbBase == 16384
ScaleLimbs == 8
\* significant bits of a binary64
Precision == 53

RECURSIVE BNorm(_)
BNorm(a) ==
    IF a = <<>> THEN a
    ELSE IF a[Len(a)] = 0 THEN BNorm(SubSeq(a, 1, Len(a) - 1)) ELSE a

RECURSIVE BFromNat(_)
BFromNat(n) ==
    IF n = 0 THEN <<>> ELSE <<n % LimbBase>> \o BFromNat(n \div LimbBase)

BHead(a) == IF a = <<>> THEN 0 ELSE Head(a)
BTail(a) == IF a = <<>> THEN <<>> ELSE Tail(a)
Zeros(n) == [i \in 1..n |-> 0]

RECURSIVE BAddC(_, _, _)
BAddC(a, b, c) ==
    IF a = <<>> /\ b = <<>> THEN (IF c = 0 THEN <<>> ELSE <<c>>)
    ELSE LET t == BHead(a) + BHead(b) + c
         IN  <<t % LimbBase>> \o BAddC(BTail(a), BTail(b), t \div LimbBase)
BAdd(a, b) == BAddC(a, b, 0)

\* a - b for a >= b
RECURSIVE BSubB(_, _, _)
BSubB(a, b, borrow) ==
    IF a = <<>> THEN <<>>
    ELSE LET d == Head(a) - BHead(b) - borrow
         IN  <<IF d < 0 THEN d + LimbBase ELSE d>>
                \o BSubB(Tail(a), BTail(b), IF d < 0 THEN 1 ELSE 0)
BSub(a, b) == BNorm(BSubB(a, b, 0))

\* -1, 0, 1 as a < b, a = b, a > b (both without a zero limb at the top)
RECURSIVE BCmpTop(_, _, _)
BCmpTop(a, b, i) ==
    IF i = 0 THEN 0
    ELSE IF a[i] < b[i] THEN -1
    ELSE IF a[i] > b[i] THEN 1
    ELSE BCmpTop(a, b, i - 1)
BCmp(a, b) ==
    IF Len(a) < Len(b) THEN -1
    ELSE IF Len(a) > Len(b) THEN 1
    ELSE BCmpTop(a, b, Len(a))

\* a * m + c for a limb m
RECURSIVE BMulSmallC(_, _, _)
BMulSmallC(a, m, c) ==
    IF a = <<>> THEN (IF c = 0 THEN <<>> ELSE <<c>>)
    ELSE LET t == Head(a) * m + c
         IN  <<t % LimbBase>> \o BMulSmallC(Tail(a), m, t \div LimbBase)
BMulSmall(a, m) == BNorm(BMulSmallC(a, m, 0))

RECURSIVE BMulR(_, _)
BMulR(a, b) ==
    IF b = <<>> THEN <<>>
    ELSE BAdd(BMulSmallC(a, Head(b), 0), <<0>> \o BMulR(a, Tail(b)))
BMul(a, b) == BNorm(BMulR(a, b))

\* quotient and remainder of a by a limb n > 0
RECURSIVE BDivSmallR(_, _)
BDivSmallR(a, n) ==
    IF a = <<>> THEN [q |-> <<>>, r |-> 0]
    ELSE LET hi == BDivSmallR(Tail(a), n)
             cur == hi.r * LimbBase + Head(a)
         IN  [q |-> <<cur \div n>> \o hi.q, r |-> cur % n]
BDivSmall(a, n) ==
    [q |-> BNorm(BDivSmallR(a, n).q), r |-> BDivSmallR(a, n).r]

RECURSIVE NatBitLen(_)
NatBitLen(n) == IF n = 0 THEN 0 ELSE 1 + NatBitLen(n \div 2)
BBitLen(a) ==
    IF a = <<>> THEN 0 ELSE (Len(a) - 1) * LimbBits + NatBitLen(a[Len(a)])

BShl(a, d) ==
    IF a = <<>> THEN <<>>
    ELSE Zeros(d \div LimbBits) \o BMulSmall(a, 2 ^ (d % LimbBits))
BShr(a, d) ==
    IF d \div LimbBits >= Len(a) THEN <<>>
    ELSE BDivSmall(SubSeq(a, d \div LimbBits + 1, Len(a)),
                   2 ^ (d % LimbBits)).q

\* the magnitude a (with more below it when sticky) rounded to Precision
\* significant bits, ties to even
RoundMag(a, sticky) ==
    IF BBitLen(a) <= Precision THEN a
    ELSE LET d == BBitLen(a) - Precision
             kept == BShr(a, d)
             low == BSub(a, BShl(kept, d))
             c == BCmp(low, BShl(<<1>>, d - 1))
             up == c > 0 \/ (c = 0 /\ (sticky \/ kept[1] % 2 = 1))
         IN  BShl(IF up THEN BAdd(kept, <<1>>) ELSE kept, d)

Float(neg, mag) == [neg |-> neg /\ mag # <<>>, mag |-> mag]

\* float(k) for a natural number k
FFromNat(k) == Float(FALSE, IF k = 0 THEN <<>> ELSE Zeros(ScaleLimbs) \o BFromNat(k))

\* k / n for natural numbers k and n > 0 (true division of two ints)
FDivNat(k, n) ==
    LET d == BDivSmall(FFromNat(k).mag, n)
    IN  Float(FALSE, RoundMag(d.q, d.r # 0))

\* the float literal k/10 (0.1, 0.2, ...): the binary64 nearest to it
FTenths(k) == FDivNat(k, 10)

FNeg(x) == Float(~x.neg, x.mag)

FAdd(x, y) ==
    IF x.neg = y.neg THEN Float(x.neg, RoundMag(BAdd(x.mag, y.mag), FALSE))
    ELSE IF BCmp(x.mag, y.mag) >= 0
        THEN Float(x.neg, RoundMag(BSub(x.mag, y.mag), FALSE))
    ELSE Float(y.neg, RoundMag(BSub(y.mag, x.mag), FALSE))

FSub(x, y) == FAdd(x, FNeg(y))

\* the product has twice the scale; rounded, its low ScaleLimbs limbs are
\* zero for every magnitude of at least 2^-(LimbBits * ScaleLimbs - Precision)
FMul(x, y) ==
    LET r == RoundMag(BMul(x.mag, y.mag), FALSE)
    IN  Float(x.neg # y.neg,
              IF Len(r) <= ScaleLimbs THEN <<>>
              ELSE BNorm(SubSeq(r, ScaleLimbs + 1, Len(r))))

FLt(x, y) ==
    IF x.neg # y.neg THEN x.neg
    ELSE IF x.neg THEN BCmp(x.mag, y.mag) > 0
    ELSE BCmp(x.mag, y.mag) < 0

\* max(x, y) and min(x, y) of Python: the first argument unless the second
\* is greater (smaller)
FMax(x, y) == IF FLt(x, y) THEN y ELSE x
FMin(x, y) == IF FLt(y, x) THEN y ELSE x

(***************************************************************************)
(* AgentService: the system health score                                   *)
(***************************************************************************)
\* the largest total_agents of a metrics record
MaxMetricAgents == 2
\* the largest error_count, cache_hits, cache_misses and reads
MaxMetricCount == 2

\* system_metrics as _monitor_agents builds it ('average_response_time',
\* 'memory_usage' and file_operations['errors'] are never read)
Metrics(total, active, healthy, errors, hits, misses, reads, writes) ==
    [total_agents |-> total, active_agents |-> active,
     healthy_agents |-> healthy, error_count |-> errors,
     cache_hits |-> hits, cache_misses |-> misses,
     reads |-> reads, writes |-> writes]

\* total_operations of _calculate_system_health
TotalOperations(metrics) ==
    metrics.cache_hits + metrics.cache_misses + metrics.reads + metrics.writes

\* the 'weights' dict
WeightAgentHealth == FTenths(4)
WeightActiveRatio == FTenths(3)
WeightErrorRate == FTenths(2)
WeightCacheRate == FTenths(1)

\* health_score before "max(0.0, min(1.0, health_score))": the sum is taken
\* from left to right
WeightedScore(metrics) ==
    LET agent_health == FDivNat(metrics.healthy_agents, metrics.total_agents)
        active_ratio == FDivNat(metrics.active_agents, metrics.total_agents)
        error_rate == FDivNat(metrics.error_count,
                              Max(TotalOperations(metrics), 1))
        cache_rate == FDivNat(metrics.cache_hits,
                              Max(metrics.cache_hits + metrics.cache_misses, 1))
    IN  FAdd(FAdd(FAdd(FMul(WeightAgentHealth, agent_health),
                       FMul(WeightActiveRatio, active_ratio)),
                  FMul(WeightErrorRate, FSub(FFromNat(1), error_rate))),
             FMul(WeightCacheRate, cache_rate))

\* _calculate_system_health with the clamp left out
calculate_system_health_unclamped(metrics) ==
    IF metrics.total_agents = 0 THEN FFromNat(0) ELSE WeightedScore(metrics)

\* _calculate_system_health(metrics)
calculate_system_health(metrics) ==
    IF metrics.total_agents = 0
       THEN FFromNat(0)
       ELSE FMax(FFromNat(0), FMin(FFromNat(1), WeightedScore(metrics)))

NoScore == [computed |-> FALSE, value |-> FFromNat(0)]
Score(value) == [computed |-> TRUE, value |-> value]

\* a call _calculate_system_health(system_metrics)
calculate_system_health_call ==
    /\ ~health_score.computed
    /\ health_score' = Score(calculate_system_health(system_metrics))
    /\ UNCHANGED <<system_metrics, monitor_call>>
    /\ UNCHANGED <<phase_vars, limiter_vars, call_vars, worker_vars>>
    /\ UNCHANGED registry_vars
    /\ UNCHANGED team_vars

IdleMonitor ==
    [seq |-> 0, scored |-> FALSE, degraded |-> FALSE, caught |-> FALSE,
     aborted |-> FALSE, looping |-> TRUE]

InitHealth ==
    /\ system_metrics = Metrics(0, 0, 0, 0, 0, 0, 0, 0)
    /\ health_score = NoScore
    /\ monitor_call = IdleMonitor

\* the metrics records _calculate_system_health is called with: the agents
\* counted active or healthy are among the agents counted
InitMetrics ==
    /\ \E total \in 0..MaxMetricAgents :
         \E active \in 0..total, healthy \in 0..total,
            errors \in 0..MaxMetricCount, hits \in 0..MaxMetricCount,
            misses \in 0..MaxMetricCount, reads \in 0..MaxMetricCount,
            writes \in {0, 1} :
             system_metrics =
                 Metrics(total, active, healthy, errors, hits, misses,
                         reads, writes)
    /\ health_score = NoScore
    /\ monitor_call = IdleMonitor

CalculateSystemHealthStep == calculate_system_health_call

(***************************************************************************)
(* AgentService: one cycle of _monitor_agents and the degradation handling *)
(***************************************************************************)
RECURSIVE SeqOf(_)
SeqOf(S) ==
    IF S = {} THEN <<>>
    ELSE LET x == CHOOSE y \in S : TRUE IN <<x>> \o SeqOf(S \ {x})

\* the agents whose current_status['health']['is_healthy'] is false
Unhealthy(ag) == {k \in DOMAIN ag : ~is_healthy(ag[k])}

\* system_metrics at the end of the "for name, agent" loop: an agent is
\* counted before _handle_unhealthy_agent is called for it, error_count
\* counts the agents whose handling raised, and the performance counters
\* are getattr(agent, ..., 0) of attributes no agent class binds
MonitorMetrics(ag, unhealthy_handler) ==
    Metrics(Cardinality(DOMAIN ag),
            Cardinality({k \in DOMAIN ag : ag[k].running}),
            Cardinality(DOMAIN ag \ Unhealthy(ag)),
            IF unhealthy_handler = "raises"
               THEN Cardinality(Unhealthy(ag)) ELSE 0,
            0, 0, 0, 0)

\* the 0.7 of "if health_score < 0.7"
DEGRADATION_THRESHOLD == FTenths(7)
\* the 0.8 of _update_global_status
WARNING_THRESHOLD == FTenths(8)

\* degradation handling triggered below the warning level of
\* _update_global_status instead
IsDegradedBelowWarning(score) == FLt(score, WARNING_THRESHOLD)

\* "if health_score < 0.7"
IsDegraded(score) == FLt(score, DEGRADATION_THRESHOLD)

\* _handle_system_degradation(system_metrics): every unhealthy agent goes
\* through _restart_agent, whose new thread is not recorded; with no cache
\* operation counted the cache branch is not entered.  fails: something
\* in the body raises before a recovery action; it is caught at the end.
handle_system_degradation(ag, th, metrics, restart_outcome, fails) ==
    IF fails
       THEN [agents |-> ag, threads |-> th, caught |-> TRUE]
    ELSE IF metrics.healthy_agents < metrics.total_agents
       THEN IF restart_outcome = "start_raises"
               THEN [agents |-> [k \in DOMAIN ag |->
                                    IF k \in Unhealthy(ag)
                                       THEN AgentStop(ag[k]) ELSE ag[k]],
                     threads |-> th, caught |-> FALSE]
               ELSE [agents |-> [k \in DOMAIN ag |->
                                    IF k \in Unhealthy(ag)
                                       THEN AgentStart(AgentStop(ag[k]))
                                       ELSE ag[k]],
                     threads |-> th \o
                        [i \in 1..Cardinality(Unhealthy(ag)) |->
                            NewThread(SeqOf(Unhealthy(ag))[i],
                                      SeqOf(Unhealthy(ag))[i])],
                     caught |-> FALSE]
    ELSE [agents |-> ag, threads |-> th, caught |-> FALSE]

MonitorCall(scored, degraded, caught, aborted) ==
    [seq |-> 1 - monitor_call.seq, scored |-> scored, degraded |-> degraded,
     caught |-> caught, aborted |-> aborted, looping |-> TRUE]

\* lines 943-951 of a cycle whose "for" loop came to its end: the score,
\* _update_global_status (which keeps the score) and, below the threshold,
\* _handle_system_degradation
monitor_score(metrics) ==
    LET score == calculate_system_health(metrics)
    IN  /\ system_metrics' = metrics
        /\ health_score' = Score(score)
        /\ IF IsDegraded(score)
              THEN \E restart_outcome \in {"ok", "start_raises"},
                      fails \in BOOLEAN :
                       LET d == handle_system_degradation(
                                    agents, threads, metrics,
                                    restart_outcome, fails)
                       IN  /\ Len(d.threads) <= MaxThreads
                           /\ agents' = d.agents
                           /\ threads' = d.threads
                           /\ monitor_call' =
                                 MonitorCall(TRUE, TRUE, d.caught, FALSE)
              ELSE /\ UNCHANGED <<agents, threads>>
                   /\ monitor_call' = MonitorCall(TRUE, FALSE, FALSE, FALSE)

\* the body of the "while" loop of _monitor_agents.  _handle_unhealthy_agent
\* and _handle_agent_error either return or raise; when both raise, the
\* cycle ends in the outer "except" before a score is computed.  Every
\* exception of the cycle is caught, so the loop goes on.
monitor_cycle(unhealthy_handler) ==
    /\ monitor_call.looping
    /\ \/ monitor_score(MonitorMetrics(agents, unhealthy_handler))
       \/ /\ Unhealthy(agents) # {}
          /\ unhealthy_handler = "raises"
          /\ monitor_call' = MonitorCall(FALSE, FALSE, FALSE, TRUE)
          /\ health_score' = NoScore
          /\ UNCHANGED <<system_metrics, agents, threads>>
    /\ UNCHANGED <<agent_threads, shutting_down, reg_call, retry>>
    /\ UNCHANGED <<phase_vars, limiter_vars, call_vars, worker_vars>>
    /\ UNCHANGED team_vars

MonitorCycleStep ==
    \E unhealthy_handler \in {"ok", "raises"} : monitor_cycle(unhealthy_handler)

\* a registry the monitor finds: some of the agents registered, each
\* running or not, with error_count 0 or past the threshold; a running
\* agent has its recorded worker
InitMonitorRegistry ==
    \E keys \in SUBSET {AgentKey(n) : n \in AgentNames} :
      \E run \in SUBSET keys, bad \in SUBSET keys :
        /\ agents = [k \in keys |->
                        [running |-> k \in run,
                         error_count |-> IF k \in bad
                                            THEN ERROR_THRESHOLD + 1 ELSE 0,
                         consecutive_no_changes |-> 0]]
        /\ Cardinality(run) <= MaxThreads
        /\ threads = [i \in 1..Cardinality(run) |->
                         NewThread(SeqOf(run)[i], SeqOf(run)[i])]
        /\ agent_threads = [k \in run |->
                               CHOOSE i \in 1..Cardinality(run) :
                                   SeqOf(run)[i] = k]
        /\ shutting_down = FALSE
        /\ reg_call = [name |-> "", op |-> "init", ret |-> FALSE,
                       already |-> FALSE, site |-> "none",
                       raised |-> FALSE, seq |-> 0]
        /\ retry = IdleRetry

NextMonitor ==
    \/ MonitorCycleStep
    \/ WorkerRunReturnsStep

(***************************************************************************)
(* The health counters of an agent and the status that reports them        *)
(***************************************************************************)
\* the largest value a health counter is followed to
MaxCounter == 6

\* a worker of the agent is inside agent.run()
HasLiveWorker(key) ==
    \E i \in DOMAIN threads : threads[i].key = key /\ threads[i].alive

\* AiderAgent.run: one iteration; a cycle that changed something resets
\* consecutive_no_changes, one that changed nothing counts
agent_run_cycle(key, result) ==
    /\ key \in DOMAIN agents
    /\ HasLiveWorker(key)
    /\ agents[key].consecutive_no_changes < MaxCounter
    /\ agents' = [agents EXCEPT ![key].consecutive_no_changes =
                     IF result THEN 0 ELSE @ + 1]
    /\ UNCHANGED <<agent_threads, threads, shutting_down, reg_call, retry>>
    /\ UNCHANGED <<phase_vars, health_vars, limiter_vars, call_vars, worker_vars>>
    /\ UNCHANGED team_vars

\* AiderAgent._handle_error_message: an error line of the tool's output
handle_error_message(key) ==
    /\ key \in DOMAIN agents
    /\ HasLiveWorker(key)
    /\ agents[key].error_count < MaxCounter
    /\ agents' = [agents EXCEPT ![key].error_count = @ + 1]
    /\ UNCHANGED <<agent_threads, threads, shutting_down, reg_call, retry>>
    /\ UNCHANGED <<phase_vars, health_vars, limiter_vars, call_vars, worker_vars>>
    /\ UNCHANGED team_vars

\* AgentService._handle_error('agent', error, {'agent_name': agent_name}):
\* nothing for a name that is no key of the registry; past five errors the
\* agent is stopped
handle_error(agent_name) ==
    /\ agent_name \in DOMAIN agents
    /\ agents[agent_name].error_count < MaxCounter
    /\ agents' = [agents EXCEPT ![agent_name] =
                     IF agents[agent_name].error_count + 1 > 5
                        THEN AgentStop([@ EXCEPT !.error_count = @ + 1])
                        ELSE [@ EXCEPT !.error_count = @ + 1]]
    /\ UNCHANGED <<agent_threads, threads, shutting_down, reg_call, retry>>
    /\ UNCHANGED <<phase_vars, health_vars, limiter_vars, call_vars, worker_vars>>
    /\ UNCHANGED team_vars

StartAgentStep ==
    \E name \in AgentNames, outcome \in StartOutcomes :
        toggle_agent(name, "start", outcome)
AgentRunCycleStep ==
    \E key \in DOMAIN agents, result \in BOOLEAN : agent_run_cycle(key, result)
HandleErrorMessageStep == \E key \in DOMAIN agents : handle_error_message(key)
HandleErrorStep ==
    \E name \in AgentNames \cup DOMAIN agents : handle_error(name)

NextStatus ==
    \/ StartAgentStep
    \/ AgentRunCycleStep
    \/ HandleErrorMessageStep
    \/ HandleErrorStep

(***************************************************************************)
(* What the monitor does about an unhealthy agent                          *)
(***************************************************************************)
\* _handle_unhealthy_agent(name, current_status): stops the agent
handle_unhealthy_agent(agent) == AgentStop(agent)

\* the "for name, agent" loop of one cycle of _monitor_agents (the score of
\* the cycle is not followed here): every agent found unhealthy is handed
\* to _handle_unhealthy_agent
monitor_agents_loop ==
    /\ monitor_call.looping
    /\ agents' = [k \in DOMAIN agents |->
                     IF is_healthy(agents[k])
                        THEN agents[k]
                        ELSE handle_unhealthy_agent(agents[k])]
    /\ monitor_call' = MonitorCall(FALSE, FALSE, FALSE, FALSE)
    /\ UNCHANGED <<system_metrics, health_score>>
    /\ UNCHANGED <<agent_threads, threads, shutting_down, reg_call, retry>>
    /\ UNCHANGED <<phase_vars, limiter_vars, call_vars, worker_vars>>
    /\ UNCHANGED team_vars

MonitorAgentsLoopStep == monitor_agents_loop

NextAutoStop ==
    \/ StartAgentStep
    \/ HandleErrorStep
    \/ MonitorAgentsLoopStep

(***************************************************************************)
(* RateLimiter: the request log of one agent                               *)
(***************************************************************************)
\* the largest max_requests and time_window a limiter is built with
MaxLimit == 2
MaxWindow == 2
\* the clock of the limiter is followed up to MaxLimiterClock, and at most
\* MaxRecorded requests are recorded
MaxLimiterClock == 4
MaxRecorded == 3

\* RateLimiter(max_requests, time_window)
NewRateLimiter(max_requests, time_window) ==
    [max_requests |-> max_requests, time_window |-> time_window,
     requests |-> <<>>]

\* a request recorded at time t is within the trailing window at time clock
InWindow(t, clock, time_window) == clock - t < time_window

\* the log as it is kept when nothing is ever pruned
KeepAll(requests, clock, time_window) == requests

\* the entries older than the window are dropped
Prune(requests, clock, time_window) ==
    SelectSeq(requests, LAMBDA t : InWindow(t, clock, time_window))

LimiterCall(op, ret) ==
    [op |-> op, ret |-> ret, seq |-> 1 - limiter_call.seq]

\* should_allow_request(): prunes, then compares the log with max_requests
should_allow_request ==
    LET kept == Prune(rate_limiter.requests, limiter_env.now,
                      rate_limiter.time_window)
    IN  /\ rate_limiter' = [rate_limiter EXCEPT !.requests = kept]
        /\ limiter_call' = LimiterCall("should_allow_request",
                                       Len(kept) < rate_limiter.max_requests)
        /\ UNCHANGED limiter_env
        /\ UNCHANGED <<phase_vars, health_vars, call_vars, worker_vars>>
        /\ UNCHANGED registry_vars
        /\ UNCHANGED team_vars

\* record_request(): one request with the current timestamp
record_request ==
    /\ Len(limiter_env.history) < MaxRecorded
    /\ rate_limiter' = [rate_limiter EXCEPT
                           !.requests = Append(@, limiter_env.now)]
    /\ limiter_env' = [limiter_env EXCEPT
                          !.history = Append(@, limiter_env.now)]
    /\ limiter_call' = LimiterCall("record_request", TRUE)
    /\ UNCHANGED <<phase_vars, health_vars, call_vars, worker_vars>>
    /\ UNCHANGED registry_vars
    /\ UNCHANGED team_vars

\* time passes
limiter_tick ==
    /\ limiter_env.now < MaxLimiterClock
    /\ limiter_env' = [limiter_env EXCEPT !.now = @ + 1]
    /\ UNCHANGED <<rate_limiter, limiter_call>>
    /\ UNCHANGED <<phase_vars, health_vars, call_vars, worker_vars>>
    /\ UNCHANGED registry_vars
    /\ UNCHANGED team_vars

IdleLimiterCall == [op |-> "init", ret |-> FALSE, seq |-> 0]

\* the limiter of AiderAgent.__init__ before any request
InitIdleLimiter ==
    /\ rate_limiter = NewRateLimiter(MaxLimit, MaxWindow)
    /\ limiter_env = [now |-> 0, history |-> <<>>]
    /\ limiter_call = IdleLimiterCall

InitLimiterWith ==
    /\ \E max_requests \in 1..MaxLimit, time_window \in 1..MaxWindow :
          rate_limiter = NewRateLimiter(max_requests, time_window)
    /\ limiter_env = [now |-> 0, history |-> <<>>]
    /\ limiter_call = IdleLimiterCall

ShouldAllowRequestStep == should_allow_request
RecordRequestStep == record_request
LimiterTickStep == limiter_tick

NextLimiter ==
    \/ ShouldAllowRequestStep
    \/ RecordRequestStep
    \/ LimiterTickStep

(***************************************************************************)
(* TeamService: phase filtering and the admission loop                     *)
(***************************************************************************)
\* self.max_concurrent_agents
max_concurrent_agents == 3

\* the agent names team configurations are written with
AgentPool == <<"a", "b", "c", "d", "e", "f", "g">>

Range(s) == {s[i] : i \in DOMAIN s}

\* an agent entry of a team configuration: a plain name (kind "str") or a
\* record (kind "dict") with a name and, when present, a type and a weight
\* (weights in hundredths; "" and -1 stand for an absent key)
StrEntry(n) == [kind |-> "str", name |-> n, type |-> "", weight |-> -1]
DictEntry(n, t, w) == [kind |-> "dict", name |-> n, type |-> t, weight |-> w]

\* agent['name'] if isinstance(agent, dict) else agent
EntryName(e) == e.name

\* {'name': a, 'type': 'aider', 'weight': 0.5} if isinstance(a, str) else a
DefaultConfig(e) ==
    IF e.kind = "str" THEN DictEntry(e.name, "aider", 50) ELSE e

\* phase.lower()
PhaseKey(phase) == IF phase = "CONVERGENCE" THEN "convergence" ELSE "expansion"

\* the first team of predefined_teams that has a record entry named like
\* one of agents; 0 when there is none (active_team stays None)
ActiveTeamIndex(teams, entries) ==
    LET names == {EntryName(entries[i]) : i \in DOMAIN entries}
        hits == {t \in DOMAIN teams :
                    \E j \in DOMAIN teams[t].agents :
                        /\ teams[t].agents[j].kind = "dict"
                        /\ teams[t].agents[j].name \in names}
    IN  IF hits = {} THEN 0 ELSE CHOOSE t \in hits : \A u \in hits : t <= u

\* phase_weights = {a['name']: a.get('weight', 0.5) for a in active_agents}
\* (a later entry of the same name overwrites an earlier one)
PhaseWeight(active, n) ==
    LET idx == {i \in DOMAIN active : active[i].name = n}
        last == CHOOSE i \in idx : \A j \in idx : j <= i
    IN  IF active[last].weight = -1 THEN 50 ELSE active[last].weight

\* _filter_agents_by_phase(agents, phase)
FilterAgentsByPhase(teams, entries, phase) ==
    LET defaults == [i \in DOMAIN entries |-> DefaultConfig(entries[i])]
        t == ActiveTeamIndex(teams, entries)
    IN  IF t = 0 THEN defaults
        ELSE
        LET cfg == teams[t].phase_config
            active == IF PhaseKey(phase) \in DOMAIN cfg
                         THEN cfg[PhaseKey(phase)] ELSE <<>>
        IN  IF active = <<>> THEN defaults
            ELSE
            LET listed == {active[i].name : i \in DOMAIN active}
                keep(e) == EntryName(e) \in listed
                conf(e) ==
                    DictEntry(e.name,
                              IF e.kind = "dict" /\ e.type # ""
                                 THEN e.type ELSE "aider",
                              PhaseWeight(active, e.name))
                kept == SelectSeq(entries, keep)
            IN  [i \in DOMAIN kept |-> conf(kept[i])]

\* a team id is the sequence of its characters
IdAlphabet == {"b", "B", "w", "W", "_", "-", " "}
\* the id of the team the configuration holds
TeamId == <<"B", "_", "w">>
\* the ids start_team is called with: that team's id with other letter
\* case and another separator, and an id with no separator
TeamIdInputs == {<<"b", " ", "W">>, <<"B", "w">>}

\* str.lower() and str.replace(old, new) on one-character strings
LowerChar(c) == IF c = "B" THEN "b" ELSE IF c = "W" THEN "w" ELSE c
StrLower(str) == [i \in DOMAIN str |-> LowerChar(str[i])]
StrReplace(str, old, new) ==
    [i \in DOMAIN str |-> IF str[i] = old THEN new ELSE str[i]]

\* team_id.lower() only
NormalizeCaseOnly(team_id) == StrLower(team_id)

\* _normalize_team_id(team_id)
NormalizeTeamId(team_id) ==
    StrReplace(StrReplace(StrLower(team_id), "_", "-"), " ", "-")

\* _get_team_config(team_id): the first team whose normalised id is the
\* normalised team_id; 0 when no team matches
GetTeamConfig(teams, team_id) ==
    LET hits == {t \in DOMAIN teams :
                    NormalizeTeamId(teams[t].id) = NormalizeTeamId(team_id)}
    IN  IF hits = {} THEN 0 ELSE CHOOSE t \in hits : \A u \in hits : t <= u

\* every order random.shuffle can leave a list in
Shuffles(s) ==
    {[i \in DOMAIN s |-> s[p[i]]] :
        p \in {q \in [DOMAIN s -> DOMAIN s] :
                  \A i, j \in DOMAIN s : i # j => q[i] # q[j]}}

\* every result of random.sample(population, k), as positions of population
Samples(population, k) ==
    {q \in [1..k -> DOMAIN population] :
        \A i, j \in 1..k : i # j => q[i] # q[j]}

\* a remove that leaves the list as it is
RemoveNothing(s, x) == s

\* list.remove(x): the first occurrence of x leaves the list
RemoveFirst(s, x) ==
    LET idx == {i \in DOMAIN s : s[i] = x}
        first == CHOOSE i \in idx : \A j \in idx : i <= j
    IN  IF idx = {} THEN s
        ELSE [i \in 1..(Len(s) - 1) |-> IF i < first THEN s[i] ELSE s[i + 1]]

\* the number of agents _start_new_agents would take with the cap ignored
SampleSizeAll(available_slots, waiting) == Len(waiting)

\* min(available_slots, len(waiting_agents))
SampleSize(available_slots, waiting) == Min(available_slots, Len(waiting))

\* the loop body with a second executor.submit for every agent
RECURSIVE SubmitAllTwice(_, _)
SubmitAllTwice(to_start, st) ==
    IF to_start = <<>> THEN st
    ELSE LET n == Head(to_start)
             f == [agent |-> n, done |-> FALSE, success |-> FALSE]
         IN  SubmitAllTwice(Tail(to_start),
                [waiting |-> RemoveFirst(st.waiting, n),
                 futures |-> Append(Append(st.futures, f), f),
                 active |-> Append(st.active, n),
                 started |-> IF n \in Range(st.started) THEN st.started
                             ELSE Append(st.started, n)])

\* the body of "for agent_name in agents_to_start" over the rest of the
\* sample
RECURSIVE SubmitAll(_, _)
SubmitAll(to_start, st) ==
    IF to_start = <<>> THEN st
    ELSE LET n == Head(to_start)
         IN  SubmitAll(Tail(to_start),
                [waiting |-> RemoveFirst(st.waiting, n),
                 futures |-> Append(st.futures,
                                [agent |-> n, done |-> FALSE,
                                 success |-> FALSE]),
                 active |-> Append(st.active, n),
                 started |-> IF n \in Range(st.started) THEN st.started
                             ELSE Append(st.started, n)])

\* the token counts map_service.generate_map() can measure in the mission:
\* an empty mission, and one at the convergence threshold
MeasuredTokens == {0, CONVERGENCE_TOKENS}

\* _initialize_services(mission_dir): generate_map() scans the mission,
\* counts its tokens, logs the count and returns a boolean; the status
\* returned is get_status_info() of the phase service, which reports the
\* phase and the count the service has stored
initialize_services(measured) ==
    [phase |-> current_phase, total_tokens |-> total_tokens]

\* start_team up to the entry of the admission loop: team lookup, the phase
\* of the phase service, the phase filter, then random.shuffle and the
\* initial waiting list of _start_agents_with_pool
\* The branch for an id no team matches
\* (TeamStartupError("Team not found", team_id): the error result carries
\* the id the call was made with)
start_team_not_found(team_id) ==
    /\ team_pc = "idle"
    /\ team_pc' = "done"
    /\ team_result' = [status |-> "error", error |-> "Team not found",
                       team_id |-> team_id]
    /\ UNCHANGED <<predefined_teams, stop_log, collections, cleanup_errors,
                   filtered_agents, waiting_agents, active_agents,
                   started_agents, futures>>
    /\ UNCHANGED <<phase_vars, health_vars, limiter_vars, call_vars, worker_vars>>
    /\ UNCHANGED registry_vars

\* start_team for a team the configuration holds, in a mission that
\* measures the given token count
start_team_measuring(team_id, measured) ==
    /\ team_pc = "idle"
    /\ LET t == GetTeamConfig(predefined_teams, team_id)
       IN  /\ t # 0
           /\ filtered_agents' =
                FilterAgentsByPhase(predefined_teams,
                                    predefined_teams[t].agents,
                                    initialize_services(measured).phase)
           /\ \E random_agents \in Shuffles(filtered_agents') :
                waiting_agents' = [i \in DOMAIN random_agents |->
                                      EntryName(random_agents[i])]
           /\ team_pc' = "loop"
           /\ UNCHANGED team_result
    /\ UNCHANGED <<predefined_teams, stop_log, collections, cleanup_errors,
                   active_agents, started_agents, futures>>
    /\ UNCHANGED <<phase_vars, health_vars, limiter_vars, call_vars, worker_vars>>
    /\ UNCHANGED registry_vars

\* one run of start_team: the team is looked up before anything is
\* measured
start_team(team_id) ==
    /\ team_pc = "idle"
    /\ IF GetTeamConfig(predefined_teams, team_id) = 0
          THEN start_team_not_found(team_id)
          ELSE \E measured \in MeasuredTokens :
                   start_team_measuring(team_id, measured)

\* TeamMetrics.success_rate compared with 0.5: above ("high"), not above
\* ("low"), or no rate at all for a run of no agents ("raises")
SuccessRate(successes, total) ==
    IF total = 0 THEN {"low", "raises"}
    ELSE IF 2 * successes > total THEN {"high"} ELSE {"low"}

\* 'status': 'started' if metrics.success_rate > 0.5 else 'failed', and the
\* error result of "except Exception"
RunStatus(rate) ==
    IF rate = "high" THEN "started"
    ELSE IF rate = "low" THEN "failed" ELSE "error"

\* one test of "while waiting_agents or active_agents" followed, when it
\* holds, by the admission of _start_new_agents; when it fails the pool
\* returns and start_team builds its result
pool_loop ==
    /\ team_pc = "loop"
    /\ IF waiting_agents # <<>> \/ active_agents # <<>>
          THEN LET available_slots == max_concurrent_agents - Len(active_agents)
               IN  /\ IF available_slots > 0 /\ waiting_agents # <<>>
                         THEN \E q \in Samples(waiting_agents,
                                    SampleSize(available_slots, waiting_agents)) :
                                LET st == SubmitAll(
                                        [i \in DOMAIN q |-> waiting_agents[q[i]]],
                                        [waiting |-> waiting_agents,
                                         futures |-> futures,
                                         active |-> active_agents,
                                         started |-> started_agents])
                                IN  /\ waiting_agents' = st.waiting
                                    /\ futures' = st.futures
                                    /\ active_agents' = st.active
                                    /\ started_agents' = st.started
                         ELSE UNCHANGED <<waiting_agents, futures,
                                          active_agents, started_agents>>
                   /\ team_pc' = "process"
                   /\ UNCHANGED team_result
          ELSE /\ team_pc' = "done"
               /\ \E rate \in SuccessRate(
                        Cardinality({i \in DOMAIN futures : futures[i].success}),
                        Len(filtered_agents)) :
                    team_result' = [status |-> RunStatus(rate), error |-> ""]
               /\ UNCHANGED <<waiting_agents, futures, active_agents,
                              started_agents>>
    /\ UNCHANGED <<predefined_teams, stop_log, collections, cleanup_errors, filtered_agents>>
    /\ UNCHANGED <<phase_vars, health_vars, limiter_vars, call_vars, worker_vars>>
    /\ UNCHANGED registry_vars

\* self._process_completed_agents(futures, active_agents, waiting_agents,
\* random_agents): the method has the five parameters (futures,
\* active_agents, waiting_agents, random_agents, started_agents), so the
\* call raises TypeError and the loop is left
process_completed_agents ==
    /\ team_pc = "process"
    /\ team_pc' = "exit"
    /\ UNCHANGED <<predefined_teams, stop_log, collections, cleanup_errors, filtered_agents, waiting_agents,
                   active_agents, started_agents, futures, team_result>>
    /\ UNCHANGED <<phase_vars, health_vars, limiter_vars, call_vars, worker_vars>>
    /\ UNCHANGED registry_vars

\* the lists self._active_agents, self._waiting_agents and
\* self._started_agents of TeamService.__init__; nothing reads the order of
\* their elements, each is kept as the set of the names it holds
NewCollections == [active |-> {}, waiting |-> {}, started |-> {}]

\* _manage_agent_collections(agent_name, action)
manage_agent_collections(c, agent_name, action) ==
    IF action = "start"
       THEN [active |-> c.active \cup {agent_name},
             started |-> c.started \cup {agent_name},
             waiting |-> c.waiting \ {agent_name}]
    ELSE IF action = "stop"
       THEN [active |-> c.active \ {agent_name},
             started |-> c.started,
             waiting |-> c.waiting \cup {agent_name}]
    ELSE c

\* a pool worker runs TeamService._start_agent(agent_name) to its end:
\* toggle_agent(agent_name, 'start') on the agent service and, when it
\* returned True, _manage_agent_collections(agent_name, 'start')
future_completes(i, outcome) ==
    /\ i \in DOMAIN futures
    /\ ~futures[i].done
    /\ LET r == ToggleAgent(agents, agent_threads, threads, futures[i].agent,
                            "start", outcome)
       IN  /\ agents' = r.agents
           /\ agent_threads' = r.agent_threads
           /\ threads' = r.threads
           /\ futures' = [futures EXCEPT ![i].done = TRUE,
                                         ![i].success = r.ret]
           /\ collections' =
                IF r.ret
                   THEN manage_agent_collections(collections,
                                                 futures[i].agent, "start")
                   ELSE collections
    /\ UNCHANGED <<shutting_down, reg_call, retry>>
    /\ UNCHANGED <<predefined_teams, stop_log, cleanup_errors, team_pc, filtered_agents, waiting_agents,
                   active_agents, started_agents, team_result>>
    /\ UNCHANGED <<phase_vars, health_vars, limiter_vars, call_vars, worker_vars>>

\* the with-block of the executor is left by the exception once every
\* submitted start has run; start_team catches it and returns the error
\* result
pool_exit ==
    /\ team_pc = "exit"
    /\ \A i \in DOMAIN futures : futures[i].done
    /\ team_pc' = "done"
    /\ team_result' = [status |-> "error", error |-> "TypeError"]
    /\ UNCHANGED <<predefined_teams, stop_log, collections, cleanup_errors, filtered_agents, waiting_agents,
                   active_agents, started_agents, futures>>
    /\ UNCHANGED <<phase_vars, health_vars, limiter_vars, call_vars, worker_vars>>
    /\ UNCHANGED registry_vars

\* _cleanup_started_agents(started_agents, mission_dir): the agents
\* toggle_agent(agent_name, 'stop', mission_dir) is called for, in the order
\* of the calls ("for agent_name in reversed(started_agents)")
CleanupStops(started) ==
    [i \in DOMAIN started |-> started[Len(started) + 1 - i]]

\* how one toggle_agent(agent_name, 'stop', mission_dir) of the cleanup may
\* end: it returns, agent.stop() raises inside it (toggle_agent returns
\* False), or the call itself raises before it has changed the registry
CleanupOutcomes == {"ok", "stop_raises", "call_raises"}

\* a loop body without the try statement: nothing is caught
CleanupCaughtNone(outcome) == FALSE

\* "except Exception as cleanup_error" around the call
CleanupCaught(outcome) == outcome = "call_raises"

\* _cleanup_started_agents(started_agents, mission_dir) is entered with the
\* started list of a run that has failed
cleanup_begin ==
    /\ team_pc = "done"
    /\ team_result.status = "error"
    /\ team_pc' = "cleanup"
    /\ UNCHANGED <<predefined_teams, stop_log, collections, cleanup_errors,
                   filtered_agents, waiting_agents, active_agents,
                   started_agents, futures, team_result>>
    /\ UNCHANGED <<phase_vars, health_vars, limiter_vars, call_vars, worker_vars>>
    /\ UNCHANGED registry_vars

\* one pass of "for agent_name in reversed(started_agents)": the stop of
\* the next agent.  A stop that waits in thread.join() has not returned; an
\* exception of the call is logged and the loop goes on.
cleanup_stop(outcome) ==
    /\ team_pc = "cleanup"
    /\ Len(stop_log) < Len(started_agents)
    /\ LET agent_name == CleanupStops(started_agents)[Len(stop_log) + 1]
           r == ToggleAgent(agents, agent_threads, threads, agent_name,
                            "stop", outcome)
       IN  /\ stop_log' = Append(stop_log, agent_name)
           /\ IF outcome = "call_raises"
                 THEN /\ IF CleanupCaught(outcome)
                            THEN /\ cleanup_errors' =
                                       Append(cleanup_errors, agent_name)
                                 /\ UNCHANGED team_pc
                            ELSE /\ team_pc' = "cleanup_raised"
                                 /\ UNCHANGED cleanup_errors
                      /\ UNCHANGED <<agents, agent_threads, threads>>
                 ELSE /\ ~r.blocked
                      /\ agents' = r.agents
                      /\ agent_threads' = r.agent_threads
                      /\ threads' = r.threads
                      /\ UNCHANGED <<team_pc, cleanup_errors>>
    /\ UNCHANGED <<shutting_down, reg_call, retry>>
    /\ UNCHANGED <<predefined_teams, collections, filtered_agents,
                   waiting_agents, active_agents, started_agents, futures,
                   team_result>>
    /\ UNCHANGED <<phase_vars, health_vars, limiter_vars, call_vars, worker_vars>>

\* the loop is over and the cleanup returns
cleanup_return ==
    /\ team_pc = "cleanup"
    /\ Len(stop_log) = Len(started_agents)
    /\ team_pc' = "cleaned"
    /\ UNCHANGED <<predefined_teams, stop_log, collections, cleanup_errors,
                   filtered_agents, waiting_agents, active_agents,
                   started_agents, futures, team_result>>
    /\ UNCHANGED <<phase_vars, health_vars, limiter_vars, call_vars, worker_vars>>
    /\ UNCHANGED registry_vars

\* team configurations: the first n names of AgentPool, written as records,
\* as plain names or alternating, with no phase configuration, with a
\* CONVERGENCE configuration listing the first and third agent, or with
\* one listing only an agent that is not in the team
TeamEntry(i, form) ==
    IF form = "dict" \/ (form = "mixed" /\ i % 2 = 1)
       THEN DictEntry(AgentPool[i], "aider", 50)
       ELSE StrEntry(AgentPool[i])

PhaseConfigOf(cfg) ==
    IF cfg = "subset"
       THEN [convergence |-> <<[name |-> AgentPool[1], weight |-> 80],
                               [name |-> AgentPool[3], weight |-> -1]>>]
    ELSE IF cfg = "outside"
       THEN [convergence |-> <<[name |-> "zz", weight |-> 80]>>]
    ELSE <<>>

MakeTeam(n, form, cfg) ==
    [id |-> TeamId, agents |-> [i \in 1..n |-> TeamEntry(i, form)],
     phase_config |-> PhaseConfigOf(cfg)]

TeamChoices ==
    {<<MakeTeam(4, form, cfg)>> :
        form \in {"dict", "str", "mixed"}, cfg \in {"none", "subset", "outside"}}
    \cup {<<MakeTeam(MaxTeamSize, "dict", "none")>>}

InitTeamWith(teams) ==
    /\ predefined_teams = teams
    /\ team_pc = "idle"
    /\ filtered_agents = <<>>
    /\ waiting_agents = <<>>
    /\ active_agents = <<>>
    /\ started_agents = <<>>
    /\ futures = <<>>
    /\ team_result = [status |-> "", error |-> ""]
    /\ stop_log = <<>>
    /\ collections = NewCollections
    /\ cleanup_errors = <<>>

(***************************************************************************)
(* PhaseService.get_status_info                                            *)
(***************************************************************************)
\* usage_percent = (self.total_tokens / self.MODEL_TOKEN_LIMIT) * 100 for a
\* limit other than 0, in binary64
UsagePercent(tokens, limit) ==
    IF limit > 0
        THEN FMul(FDivNat(tokens, limit), FFromNat(100))
        ELSE FMul(FNeg(FDivNat(tokens, -limit)), FFromNat(100))

\* self.CONVERGENCE_THRESHOLD * 100 and (self.CONVERGENCE_THRESHOLD * 0.9) * 100
ConvergencePercent == FMul(FTenths(6), FFromNat(100))
ApproachingPercent == FMul(FMul(FTenths(6), FTenths(9)), FFromNat(100))

\* the icon and the message chosen from the usage
StatusIcon(usage) ==
    IF ~FLt(usage, ConvergencePercent) THEN "red"
    ELSE IF ~FLt(usage, ApproachingPercent) THEN "warning"
    ELSE "check"

StatusMessage(usage) ==
    IF ~FLt(usage, ConvergencePercent) THEN "Convergence needed"
    ELSE IF ~FLt(usage, ApproachingPercent)
        THEN "Approaching convergence threshold"
    ELSE "Below convergence threshold"

\* "Calculate headroom based on phase": CONVERGENCE_TOKENS is the class
\* attribute, MODEL_TOKEN_LIMIT is read through self
Headroom(phase, tokens, limit) ==
    IF phase = "EXPANSION" THEN CONVERGENCE_TOKENS - tokens
    ELSE limit - tokens

\* the dictionary get_status_info returns; with the limit 0 the division
\* raises and the except clause returns the default values
StatusInfo(phase, tokens, transition, limit) ==
    IF limit = 0
        THEN [returned |-> TRUE, phase |-> phase, total_tokens |-> tokens,
              usage_percent |-> FFromNat(0), status_icon |-> "warning",
              status_message |-> "Error getting status", headroom |-> 0,
              last_transition |-> transition]
        ELSE LET usage_percent == UsagePercent(tokens, limit)
             IN  [returned |-> TRUE, phase |-> phase, total_tokens |-> tokens,
                  usage_percent |-> usage_percent,
                  status_icon |-> StatusIcon(usage_percent),
                  status_message |-> StatusMessage(usage_percent),
                  headroom |-> Headroom(phase, tokens, limit),
                  last_transition |-> transition]

\* a get_status_info that brings the stored phase up to date first
get_status_info_refreshing ==
    /\ token_limit \in BudgetInputs
    /\ current_phase' = (IF token_limit > 0
                            THEN NewPhase(current_phase, total_tokens)
                            ELSE current_phase)
    /\ phase_call' = PhaseCall("get_status_info", 0, "", "", FALSE,
                               StatusInfo(current_phase', total_tokens,
                                          last_transition, token_limit),
                               1 - phase_call.seq)
    /\ UNCHANGED <<total_tokens, last_transition, now, transition_log,
                   token_limit>>
    /\ UNCHANGED registry_vars
    /\ UNCHANGED team_vars
    /\ UNCHANGED <<health_vars, limiter_vars, call_vars, worker_vars>>

\* get_status_info(): reads the stored state, writes nothing
get_status_info ==
    /\ token_limit \in BudgetInputs
    /\ phase_call' = PhaseCall("get_status_info", 0, "", "", FALSE,
                               StatusInfo(current_phase, total_tokens,
                                          last_transition, token_limit),
                               1 - phase_call.seq)
    /\ UNCHANGED <<current_phase, total_tokens, last_transition, now,
                   transition_log, token_limit>>
    /\ UNCHANGED registry_vars
    /\ UNCHANGED team_vars
    /\ UNCHANGED <<health_vars, limiter_vars, call_vars, worker_vars>>

GetStatusInfoStep == get_status_info

NextPhaseStatus == DeterminePhaseStep \/ ForcePhaseStep \/ GetStatusInfoStep

\* the phase service after determine_phase(CONVERGENCE_TOKENS)
InitPhaseConverged ==
    /\ current_phase = "CONVERGENCE"
    /\ last_transition = 1
    /\ total_tokens = CONVERGENCE_TOKENS
    /\ now = 1
    /\ transition_log = 1
    /\ phase_call = PhaseCall("determine_phase", CONVERGENCE_TOKENS,
                              "CONVERGENCE", "Convergence needed", FALSE,
                              NoInfo, 0)
    /\ token_limit = MODEL_TOKEN_LIMIT

\* start_team at the point where the start of the filtered agents has
\* handed back: the first n agents of AgentPool were submitted, the starts
\* of those in ok succeeded (each is registered, running, with a recorded
\* worker) and nothing is waiting or active any more
SummaryRegistry(names) ==
    /\ agents = [k \in Range(names) |-> AgentStart(NewAgent)]
    /\ threads = [i \in DOMAIN names |-> NewThread(names[i], names[i])]
    /\ agent_threads = [k \in Range(names) |->
                           CHOOSE i \in DOMAIN names : names[i] = k]
    /\ shutting_down = FALSE
    /\ reg_call = [name |-> "", op |-> "init", ret |-> FALSE, already |-> FALSE,
                  site |-> "none", raised |-> FALSE, seq |-> 0]
    /\ retry = IdleRetry

InitSummary ==
    /\ InitPhase \/ InitPhaseConverged
    /\ \E n \in 0..MaxTeamSize :
         \E ok \in SUBSET (1..n) :
            LET names == [i \in 1..n |-> AgentPool[i]]
                started(x) == \E i \in ok : AgentPool[i] = x
            IN  /\ predefined_teams = <<MakeTeam(n, "dict", "none")>>
                /\ filtered_agents =
                      [i \in 1..n |-> DefaultConfig(TeamEntry(i, "dict"))]
                /\ futures = [i \in 1..n |->
                                 [agent |-> AgentPool[i], done |-> TRUE,
                                  success |-> i \in ok]]
                /\ started_agents = names
                /\ SummaryRegistry(SelectSeq(names, started))
    /\ waiting_agents = <<>>
    /\ active_agents = <<>>
    /\ team_pc = "loop"
    /\ team_result = [status |-> "", error |-> ""]
    /\ stop_log = <<>>
    /\ collections = NewCollections
    /\ cleanup_errors = <<>>
    /\ InitHealth
    /\ InitIdleLimiter
    /\ InitCallers
    /\ InitWorkers

\* the longest team id the lookup is followed for
MaxIdLen == 2
LookupAlphabet == {"b", "B", "_", "-", " "}
IdPool == UNION {[1..n -> LookupAlphabet] : n \in 1..MaxIdLen}

\* two teams: the id of the first is drawn from IdPool
InitLookupTeams ==
    \E id \in IdPool :
        InitTeamWith(<<[MakeTeam(1, "dict", "none") EXCEPT !.id = id],
                       [MakeTeam(2, "dict", "none") EXCEPT !.id = <<"b", "-">>]>>)

\* start_team called with any id of the pool, in an empty mission
LookupStep ==
    /\ team_pc = "idle"
    /\ \E team_id \in IdPool :
          IF GetTeamConfig(predefined_teams, team_id) = 0
             THEN start_team_not_found(team_id)
             ELSE start_team_measuring(team_id, 0)

StartTeamStep == \E team_id \in TeamIdInputs : start_team(team_id)
PoolLoopStep == pool_loop
ProcessCompletedStep == process_completed_agents
FutureCompletesStep ==
    \E i \in DOMAIN futures, outcome \in StartOutcomes :
        future_completes(i, outcome)
PoolExitStep == pool_exit

NextTeam ==
    \/ StartTeamStep
    \/ PoolLoopStep
    \/ ProcessCompletedStep
    \/ FutureCompletesStep
    \/ PoolExitStep

CleanupBeginStep == cleanup_begin
CleanupStopStep == \E outcome \in CleanupOutcomes : cleanup_stop(outcome)
CleanupReturnStep == cleanup_return

\* a run of start_team, the worker threads it starts, and the cleanup
\* called with the started list once the run has failed
NextCleanup ==
    \/ StartTeamStep
    \/ PoolLoopStep
    \/ ProcessCompletedStep
    \/ FutureCompletesStep
    \/ PoolExitStep
    \/ WorkerRunReturnsStep
    \/ CleanupBeginStep
    \/ CleanupStopStep
    \/ CleanupReturnStep

(***************************************************************************)
(* Specifications                                                          *)
(***************************************************************************)
Init ==
    /\ InitPhase
    /\ InitRegistry
    /\ InitHealth
    /\ InitIdleLimiter
    /\ InitCallers
    /\ InitWorkers
    /\ InitTeamWith(<<MakeTeam(4, "dict", "none")>>)

\* a phase service whose limit is the class attribute or a misconfigured one
InitPhaseStatus ==
    /\ \E limit \in BudgetInputs : InitPhaseWith(limit)
    /\ InitRegistry
    /\ InitHealth
    /\ InitIdleLimiter
    /\ InitCallers
    /\ InitWorkers
    /\ InitTeamWith(<<MakeTeam(4, "dict", "none")>>)

InitTeam ==
    /\ InitPhase \/ InitPhaseConverged
    /\ InitRegistry
    /\ InitHealth
    /\ InitIdleLimiter
    /\ InitCallers
    /\ InitWorkers
    /\ \E teams \in TeamChoices : InitTeamWith(teams)

InitHealthScore ==
    /\ InitPhase
    /\ InitRegistry
    /\ InitTeamWith(<<MakeTeam(4, "dict", "none")>>)
    /\ InitMetrics
    /\ InitIdleLimiter
    /\ InitCallers
    /\ InitWorkers

InitMonitor ==
    /\ InitPhase
    /\ InitMonitorRegistry
    /\ InitTeamWith(<<MakeTeam(4, "dict", "none")>>)
    /\ InitHealth
    /\ InitIdleLimiter
    /\ InitCallers
    /\ InitWorkers

InitLimiter ==
    /\ InitPhase
    /\ InitRegistry
    /\ InitTeamWith(<<MakeTeam(4, "dict", "none")>>)
    /\ InitHealth
    /\ InitLimiterWith
    /\ InitCallers
    /\ InitWorkers

InitLookup ==
    /\ InitPhase
    /\ InitRegistry
    /\ InitHealth
    /\ InitIdleLimiter
    /\ InitCallers
    /\ InitWorkers
    /\ InitLookupTeams

SpecPhase == Init /\ [][NextPhase]_vars
SpecRegistry == Init /\ [][NextRegistry]_vars
SpecRetry == Init /\ [][NextRetry]_vars
SpecToggle == Init /\ [][NextToggle]_vars
SpecTeam == InitTeam /\ [][NextTeam]_vars
SpecCleanup == Init /\ [][NextCleanup]_vars
SpecSummary == InitSummary /\ [][PoolLoopStep]_vars
SpecHealth == InitHealthScore /\ [][CalculateSystemHealthStep]_vars
SpecMonitor == InitMonitor /\ [][NextMonitor]_vars
\* the monitor loop runs a cycle every 30 seconds
SpecAutoStop == Init /\ [][NextAutoStop]_vars /\ WF_vars(MonitorAgentsLoopStep)
SpecStatus == Init /\ [][NextStatus]_vars
SpecLimiter == InitLimiter /\ [][NextLimiter]_vars
SpecLookup == InitLookup /\ [][LookupStep]_vars
SpecPhaseStatus == InitPhaseStatus /\ [][NextPhaseStatus]_vars
SpecConcurrent == Init /\ [][NextConcurrent]_vars
SpecWorker == Init /\ [][NextWorker]_vars
\* the scheduler runs every worker thread, agent.run() and time.sleep return
SpecWorkerFair ==
    /\ Init
    /\ [][NextWorker]_vars
    /\ \A w \in Workers :
          /\ WF_vars(wrapper_begin(w))
          /\ WF_vars(\E outcome \in RunOutcomes : wrapper_run(w, outcome))
          /\ WF_vars(wrapper_sleep_returns(w))
          /\ WF_vars(wrapper_exit(w))
\* the admission loop under its scheduling: the controlling task runs on, and
\* the pool runs every start that was submitted
SpecAdmission ==
    /\ Init
    /\ [][NextTeam]_vars
    /\ WF_vars(PoolLoopStep)
    /\ WF_vars(ProcessCompletedStep)
    /\ WF_vars(FutureCompletesStep)
    /\ WF_vars(PoolExitStep)
Spec == SpecTeam

(***************************************************************************)
(* Claims on PhaseService                                                  *)
(***************************************************************************)
InBand(t) == 2 * t >= MODEL_TOKEN_LIMIT /\ 5 * t < 3 * MODEL_TOKEN_LIMIT
BelowBand(t) == 2 * t < MODEL_TOKEN_LIMIT
AtOrAboveBand(t) == 5 * t >= 3 * MODEL_TOKEN_LIMIT

\* a step of the behaviour that is a determine_phase call
IsDetermineStep == now' = now + 1 /\ phase_call'.op = "determine_phase"

\* C2: hysteresis.  A determine_phase call with usage in [50%, 60%) leaves
\* the stored phase as it was (CONVERGENCE stays CONVERGENCE, EXPANSION
\* stays EXPANSION), and a determine_phase call turns CONVERGENCE into
\* EXPANSION only when its usage is strictly below 50%.
C2_Hysteresis ==
    [][IsDetermineStep =>
         /\ (InBand(phase_call'.arg) => current_phase' = current_phase)
         /\ (current_phase = "CONVERGENCE" /\ current_phase' = "EXPANSION"
                => BelowBand(phase_call'.arg))]_vars

\* C2 witness: a call in the band was made while the phase was, and stayed,
\* CONVERGENCE
C2_Witness ==
    /\ phase_call.op = "determine_phase"
    /\ InBand(phase_call.arg)
    /\ current_phase = "CONVERGENCE"
    /\ transition_log >= 1

\* C3: determine_phase(t) returns CONVERGENCE when t/budget >= 0.60,
\* EXPANSION when t/budget < 0.50 and the previous phase otherwise; 60% is
\* inclusive and exactly 50% retains the previous phase.
C3_ThresholdFunction ==
    [][IsDetermineStep =>
         phase_call'.ret =
            IF AtOrAboveBand(phase_call'.arg) THEN "CONVERGENCE"
            ELSE IF BelowBand(phase_call'.arg) THEN "EXPANSION"
            ELSE current_phase]_vars

\* C3 witness: a call exactly at the 60% boundary returned CONVERGENCE
C3_Witness ==
    /\ phase_call.op = "determine_phase"
    /\ 5 * phase_call.arg = 3 * MODEL_TOKEN_LIMIT
    /\ phase_call.ret = "CONVERGENCE"

\* C4: determine_phase is idempotent.  A second consecutive call with the
\* same token count returns the same phase, leaves the stored state equal
\* to the state after the first call and records no transition.
C4_Idempotent ==
    [][(IsDetermineStep /\ phase_call.op = "determine_phase"
          /\ phase_call'.arg = phase_call.arg) =>
         /\ phase_call'.ret = phase_call.ret
         /\ current_phase' = current_phase
         /\ total_tokens' = total_tokens
         /\ last_transition' = last_transition
         /\ transition_log' = transition_log]_vars

\* C4 witness: the same count was given twice in a row after a call that
\* did change the phase (the clock has moved past the transition)
C4_Witness ==
    /\ phase_call.op = "determine_phase"
    /\ phase_call.rep
    /\ transition_log >= 1
    /\ current_phase = "CONVERGENCE"
    /\ now > last_transition

\* C5 as stated: after every determine_phase(t) the stored total_tokens
\* equals t and the stored phase equals the returned phase; last_transition
\* is modified and a transition logged iff the returned phase differs from
\* the phase stored before the call.
C5_Original ==
    [][IsDetermineStep =>
         /\ total_tokens' = phase_call'.arg
         /\ current_phase' = phase_call'.ret
         /\ (last_transition' # last_transition
                <=> phase_call'.ret # current_phase)
         /\ (transition_log' # transition_log
                <=> phase_call'.ret # current_phase)]_vars

\* C5 amended: the stored total_tokens equals max(0, t); the rest of the
\* claim is unchanged.
C5_StoredState ==
    [][IsDetermineStep =>
         /\ total_tokens' = (IF phase_call'.arg < 0 THEN 0 ELSE phase_call'.arg)
         /\ current_phase' = phase_call'.ret
         /\ (last_transition' # last_transition
                <=> phase_call'.ret # current_phase)
         /\ (transition_log' # transition_log
                <=> phase_call'.ret # current_phase)]_vars

\* C5 witness: a call with a negative count stored zero tokens
C5_Witness ==
    /\ phase_call.op = "determine_phase"
    /\ phase_call.arg < 0
    /\ total_tokens = 0

(***************************************************************************)
(* Claims on AgentService                                                  *)
(***************************************************************************)
\* a step of the behaviour that is a toggle_agent call
IsToggleStep == reg_call'.seq # reg_call.seq

LiveWorkers(k) ==
    {i \in DOMAIN threads :
        threads[i].alive /\ threads[i].key = k /\ ~threads[i].detached}

\* the threads agent_threads records
RecordedThreads == {agent_threads[n] : n \in DOMAIN agent_threads}

\* C7 as stated: every handle with running == true has exactly one live
\* worker thread, that worker is recorded in agent_threads, and no handle
\* has two live workers at the same time.
C7_Original ==
    \A k \in DOMAIN agents :
        /\ Cardinality(LiveWorkers(k)) <= 1
        /\ agents[k].running =>
              /\ Cardinality(LiveWorkers(k)) = 1
              /\ LiveWorkers(k) \subseteq RecordedThreads

\* the status get_agent_status(name) reports counts as unhealthy when it
\* carries no health or health.is_healthy is false
ReportsUnhealthy(name) ==
    ~(get_agent_status(name).has_health /\ get_agent_status(name).is_healthy)

\* C8 as stated: when the start fails on every attempt, exactly
\* max_attempts attempts are made, the handle is marked in error state,
\* the call returns false and the agent's status reports is_healthy false.
C8_Original ==
    (retry.pc = "done" /\ ~retry.ret) =>
        /\ retry.calls = max_attempts
        /\ retry.state.status = "error"
        /\ ReportsUnhealthy(retry.name)

C16_Original ==
    /\ \A n \in AgentNames :
          (AgentKey(n) \in DOMAIN agents /\ agents[AgentKey(n)].running) =>
              ENABLED toggle_agent(n, "stop", "ok")
    /\ ENABLED stop_all_agents

(***************************************************************************)
(* Claims on TeamService                                                   *)
(***************************************************************************)
\* C1: in every state of a scheduling run the number of agents in the
\* active set is at most max_concurrent_agents.
C1_ActiveWithinCap == Len(active_agents) <= max_concurrent_agents

\* C1 witness: a team of more agents than the cap has the cap's number of
\* agents active and the others waiting
C1_Witness ==
    /\ Len(filtered_agents) >= 5
    /\ Len(active_agents) = max_concurrent_agents
    /\ Len(waiting_agents) = Len(filtered_agents) - max_concurrent_agents
    /\ \E i \in DOMAIN futures : futures[i].done

\* the names the started team's configuration lists for the current phase
ListedForPhase ==
    LET cfg == predefined_teams[1].phase_config
    IN  IF PhaseKey(current_phase) \in DOMAIN cfg
           THEN {cfg[PhaseKey(current_phase)][i].name :
                    i \in DOMAIN cfg[PhaseKey(current_phase)]}
           ELSE {}

\* the names of the started team's agents
TeamAgentNames ==
    {EntryName(predefined_teams[1].agents[i]) :
        i \in DOMAIN predefined_teams[1].agents}

\* C9 as stated: when the team's configuration for the current phase lists
\* a subset of the team's agents, a start is only ever submitted for a
\* listed agent, whatever form the team's agent entries take.
C9_Original ==
    (ListedForPhase # {} /\ ListedForPhase \subseteq TeamAgentNames) =>
        \A i \in DOMAIN futures : futures[i].agent \in ListedForPhase

\* C10 as stated: when the filtered set is empty, start_team ends with
\* status 'no_agents_for_phase' and has started no agent.
C10_Original ==
    (team_pc = "done" /\ team_result.error # "Team not found"
       /\ filtered_agents = <<>>) =>
        /\ team_result.status = "no_agents_for_phase"
        /\ futures = <<>>

\* the agents whose start returned success
StartedOk == {futures[i].agent : i \in {j \in DOMAIN futures : futures[j].success}}

\* C11 as stated: the started set holds only agents whose start returned
\* success, and an agent whose start failed is not in the started set.
C11_Original ==
    /\ Range(started_agents) \subseteq StartedOk
    /\ \A i \in DOMAIN futures :
          (futures[i].done /\ ~futures[i].success) =>
              futures[i].agent \notin Range(started_agents)

\* C12 as stated: the summary of a run that came to its end has status
\* 'failed' if and only if no agent was started, and 'started' otherwise.
C12_Original ==
    (team_pc = "done" /\ team_result.status \in {"started", "failed"}) =>
        (team_result.status = "failed" <=> StartedOk = {})

\* the run of start_team ended in the error result of "except Exception"
\* after starts were submitted
RunFailedAfterStarts ==
    /\ team_pc = "done"
    /\ team_result.status = "error"
    /\ team_result.error = "TypeError"
    /\ started_agents # <<>>

\* C13 as stated: when a run fails with an unhandled exception after agents
\* were started in the order s1..sk, a stop was issued for sk, ..., s1 in
\* this order before the error reached the caller.
C13_Original ==
    RunFailedAfterStarts => stop_log = CleanupStops(started_agents)

\* C14 as stated: start_team returns a structured result, and when an
\* unexpected internal error occurred every agent the run had started has
\* been stopped before the error result reaches the caller.
C14_Original ==
    team_pc = "done" =>
        /\ team_result.status \in
              {"started", "failed", "error", "no_agents_for_phase"}
        /\ RunFailedAfterStarts => StartedOk \subseteq Range(stop_log)


(***************************************************************************)
(* Claims: the system health score                                         *)
(***************************************************************************)
AllPerfect ==
    /\ system_metrics.total_agents > 0
    /\ system_metrics.active_agents = system_metrics.total_agents
    /\ system_metrics.healthy_agents = system_metrics.total_agents
    /\ system_metrics.error_count = 0
    /\ system_metrics.cache_misses = 0

\* C17: _calculate_system_health returns exactly 0.0 when total_agents is 0
\* and exactly 1.0 when every agent is active and healthy, error_count is 0
\* and cache_misses is 0.
C17_Original ==
    health_score.computed =>
        /\ system_metrics.total_agents = 0 => health_score.value = FFromNat(0)
        /\ AllPerfect => health_score.value = FFromNat(1)

\* the clamped weighted sum over the real numbers, as the fraction
\* ExactNum / ExactDen
ExactDen(m) ==
    10 * m.total_agents * Max(TotalOperations(m), 1)
       * Max(m.cache_hits + m.cache_misses, 1)
ExactNum(m) ==
    LET ops == Max(TotalOperations(m), 1)
        cache == Max(m.cache_hits + m.cache_misses, 1)
        raw == 4 * m.healthy_agents * ops * cache
                 + 3 * m.active_agents * ops * cache
                 + 2 * (ops - m.error_count) * m.total_agents * cache
                 + m.cache_hits * m.total_agents * ops
    IN  Max(0, Min(ExactDen(m), raw))

\* | x * ExactDen - ExactNum |, in the units of the magnitude of x
ExactGap(x, m) ==
    LET a == BMulSmall(x.mag, ExactDen(m))
        b == FFromNat(ExactNum(m)).mag
    IN  IF BCmp(a, b) >= 0 THEN BSub(a, b) ELSE BSub(b, a)

InUnitInterval(x) == ~x.neg /\ ~FLt(FFromNat(1), x)

\* 2^-50 in the units of a magnitude
RoundingBound == BShl(<<1>>, LimbBits * ScaleLimbs - 50)

\* C18: for total_agents > 0 the result is the weighted sum
\* 0.4*healthy/total + 0.3*active/total + 0.2*(1 - errors/max(operations,1))
\* + 0.1*hits/max(hits+misses,1) clamped to [0,1], computed in floats (it is
\* less than 2^-50 away from the sum over the real numbers), and every
\* result lies in [0,1], also when error_count exceeds the operation count.
C18_WithinRounding ==
    health_score.computed =>
        /\ system_metrics.total_agents > 0 =>
              BCmp(ExactGap(health_score.value, system_metrics),
                   BMulSmall(RoundingBound, ExactDen(system_metrics))) < 0
        /\ InUnitInterval(health_score.value)

\* the clamp acted: more errors than operations and a negative weighted sum
C18_Witness ==
    /\ health_score.computed
    /\ system_metrics.total_agents > 0
    /\ system_metrics.error_count > TotalOperations(system_metrics)
    /\ WeightedScore(system_metrics).neg
    /\ health_score.value = FFromNat(0)


(***************************************************************************)
(* Claims: the monitor cycle                                               *)
(***************************************************************************)
IsMonitorStep == monitor_call'.seq # monitor_call.seq

RegistryKeys == {AgentKey(n) : n \in AgentNames}
RunningPastThreshold(k) ==
    /\ k \in DOMAIN agents
    /\ agents[k].running
    /\ agents[k].error_count > ERROR_THRESHOLD

\* C21: an agent that is running with an error count past the error
\* threshold is eventually no longer running, once the monitor has run.
C21_Original ==
    \A k \in RegistryKeys :
        RunningPastThreshold(k) ~> ~RunningPastThreshold(k)

(***************************************************************************)
(* Claims: RateLimiter                                                     *)
(***************************************************************************)
\* the requests recorded within the trailing window
RecordedInWindow ==
    {i \in DOMAIN limiter_env.history :
        InWindow(limiter_env.history[i], limiter_env.now,
                 rate_limiter.time_window)}

IsShouldAllowStep ==
    /\ limiter_call'.seq # limiter_call.seq
    /\ limiter_call'.op = "should_allow_request"

\* C22: should_allow_request returns true exactly while fewer than
\* max_requests requests are recorded within the trailing time_window: it
\* refuses the request after max_requests of them, and admits again once
\* the oldest has left the window.
C22_RollingWindow ==
    [][IsShouldAllowStep =>
          (limiter_call'.ret <=>
              Cardinality(RecordedInWindow) < rate_limiter.max_requests)]_vars

\* a request admitted although max_requests requests were recorded before:
\* the oldest of them has left the window
C22_Witness ==
    /\ limiter_call.op = "should_allow_request"
    /\ limiter_call.ret
    /\ Len(limiter_env.history) >= rate_limiter.max_requests
    /\ Cardinality(RecordedInWindow) < rate_limiter.max_requests

(***************************************************************************)
(* Claims: team lookup                                                     *)
(***************************************************************************)
IdSeparators == {"_", "-", " "}
SameLetter(c, d) == c = d \/ {c, d} = {"b", "B"} \/ {c, d} = {"w", "W"}

\* the two ids differ only in letter case and in which separator stands
\* where
SameUpToCaseAndSeparators(p, q) ==
    /\ Len(p) = Len(q)
    /\ \A i \in DOMAIN p :
          \/ SameLetter(p[i], q[i])
          \/ p[i] \in IdSeparators /\ q[i] \in IdSeparators

\* the characters that may stand for c, and the ids that differ from q only
\* in letter case or in the use of '_', ' ' and '-'
CharClass(c) ==
    {d \in LookupAlphabet :
        SameLetter(c, d) \/ (c \in IdSeparators /\ d \in IdSeparators)}

RECURSIVE Equivalents(_)
Equivalents(q) ==
    IF q = <<>> THEN {<<>>}
    ELSE {<<d>> \o r : d \in CharClass(Head(q)), r \in Equivalents(Tail(q))}

\* the ids that differ from q only in letter case or separators resolve to
\* the same team of the configuration as q
LookupRespectsEquivalence(q) ==
    LET t == GetTeamConfig(predefined_teams, q)
    IN  \A p \in Equivalents(q) :
            /\ SameUpToCaseAndSeparators(p, q)
            /\ GetTeamConfig(predefined_teams, p) = t

\* what start_team(q) has to do: a team is found exactly when one has an id
\* that differs from q only in letter case or separators, and then every
\* such id resolves to that team; otherwise the call ends with the "Team
\* not found" error and has started no agent
LookupOutcome(q) ==
    LET t == GetTeamConfig(predefined_teams, q)
    IN  /\ t = 0 <=>
              \A i \in DOMAIN predefined_teams :
                  ~SameUpToCaseAndSeparators(predefined_teams[i].id, q)
        /\ t # 0 =>
              /\ SameUpToCaseAndSeparators(predefined_teams[t].id, q)
              /\ LookupRespectsEquivalence(q)
              /\ team_pc' = "loop"
        /\ t = 0 =>
              /\ team_pc' = "done"
              /\ team_result'.status = "error"
              /\ team_result'.error = "Team not found"
              /\ futures' = <<>> /\ started_agents' = <<>>
              /\ UNCHANGED registry_vars

C24_Original ==
    [][(IsDetermineStep /\ token_limit <= 0) =>
         /\ phase_call'.ret = "EXPANSION"
         /\ phase_call'.msg = "Error determining phase"]_vars

\* a step of the behaviour that is a get_status_info call
IsStatusStep ==
    phase_call'.op = "get_status_info" /\ phase_call' # phase_call

\* the float u is 100 * tokens / limit up to the rounding of the quotient:
\* it lies between the two integers that bracket the exact value
UsageOfStored(u, tokens, limit) ==
    LET q == (100 * tokens) \div (IF limit > 0 THEN limit ELSE -limit)
        mag == IF limit > 0 THEN u ELSE FNeg(u)
    IN  ~FLt(mag, FFromNat(q)) /\ ~FLt(FFromNat(q + 1), mag)

\* C25: get_status_info has no side effects.  It leaves current_phase,
\* total_tokens and last_transition unchanged, the phase and the token count
\* it reports are the stored ones, the usage it reports is the usage of the
\* stored token count (for a limit other than 0), and a call that follows
\* another get_status_info call returns the same snapshot.
C25_StatusReadOnly ==
    [][IsStatusStep =>
         /\ UNCHANGED <<current_phase, total_tokens, last_transition>>
         /\ phase_call'.info.phase = current_phase
         /\ phase_call'.info.total_tokens = total_tokens
         /\ phase_call'.info.last_transition = last_transition
         /\ (token_limit # 0 =>
                UsageOfStored(phase_call'.info.usage_percent, total_tokens,
                              token_limit))
         /\ (phase_call.op = "get_status_info" =>
                phase_call'.info = phase_call.info)]_vars

\* two get_status_info calls in a row were made on a service that is in
\* EXPANSION with a token count past the convergence threshold
C25_Witness ==
    /\ phase_call.op = "get_status_info"
    /\ phase_call.seq = 0
    /\ current_phase = "EXPANSION"
    /\ total_tokens > CONVERGENCE_TOKENS
    /\ token_limit = MODEL_TOKEN_LIMIT
    /\ phase_call.info.phase = "EXPANSION"
    /\ phase_call.info.status_icon = "red"

\* C26 as stated: the headroom reported by get_status_info is the number of
\* tokens to the next phase threshold: in EXPANSION the distance from
\* total_tokens up to the convergence threshold, in CONVERGENCE the distance
\* between total_tokens and the expansion threshold.
C26_Original ==
    [][(IsStatusStep /\ token_limit > 0) =>
         IF current_phase = "EXPANSION"
            THEN phase_call'.info.headroom = CONVERGENCE_TOKENS - total_tokens
            ELSE phase_call'.info.headroom \in
                    {total_tokens - EXPANSION_TOKENS,
                     EXPANSION_TOKENS - total_tokens}]_vars

\* C27 as stated: concurrent toggle_agent calls on one agent name behave as
\* some sequential order of the calls, so two concurrent starts of a stopped
\* agent launch one worker: no agent ever has two live workers.
C27_Original == \A n \in AgentNames : Cardinality(LiveWorkers(AgentKey(n))) <= 1

\* toggle_agent(n, 'start') where the start of a stopped (or new) agent
\* raises one of the known tool errors
KnownErrorStart(n) ==
    /\ ~(AgentKey(n) \in DOMAIN agents /\ agents[AgentKey(n)].running)
    /\ toggle_agent(n, "start", "known_error_raises")

\* C28 as stated: a start attempt that raises one of the known non-fatal
\* tool errors is swallowed and does not count as a failure: the start is
\* not reported as failed.
C28_Original ==
    [][\A n \in AgentNames : KnownErrorStart(n) => reg_call'.ret]_vars

\* C29 as stated: no start, stop, stop-all, restart or error-handling
\* operation removes an entry of the agents map: every key registered before
\* a step of the registry is registered after it.
C29_Original == [][DOMAIN agents \subseteq DOMAIN agents']_vars

\* C30 as stated: the admission loop always terminates with waiting and
\* active both empty, provided every submitted start completes: a run that
\* has entered the loop eventually is done with both lists empty.
C30_Original ==
    (team_pc = "loop") ~>
        (team_pc = "done" /\ waiting_agents = <<>> /\ active_agents = <<>>)

\* C31 as stated: a stop signal given while a worker waits in the backoff
\* between two attempts ends the wait, and no further run attempt is made
\* by that worker.
C31_Original ==
    [][\A w \in Workers :
          (shutting_down /\ wrappers[w].signalled) =>
              wrappers'[w].runs = wrappers[w].runs]_vars

\* the counters of worker w agree with the retry contract of the wrapper
WrapperWithinContract(w) ==
    LET s == wrappers[w]
    IN  /\ s.runs <= 3
        /\ s.runs = s.raised + s.returned
        /\ s.returned <= 1
        /\ (s.returned = 1 => s.pc \in {"after_loop", "done"})
        /\ Len(s.waits) = s.raised
        /\ \A k \in DOMAIN s.waits :
              s.waits[k] = (IF 2 ^ k < 30 THEN 2 ^ k ELSE 30)
        /\ (s.pc = "done" => (s.fatal <=> s.raised = 3))
        /\ (s.pc # "done" => ~s.fatal)

MeasuredOutsideBand(measured) ==
    \/ UsageAtLeast(measured, CONVERGENCE_THRESHOLD)
    \/ ~UsageAtLeast(measured, EXPANSION_THRESHOLD)

C33_Original ==
    [][\A team_id \in TeamIdInputs, measured \in MeasuredTokens :
          (/\ start_team_measuring(team_id, measured)
           /\ team_pc' = "loop"
           /\ MeasuredOutsideBand(measured))
          => filtered_agents' =
                FilterAgentsByPhase(
                    predefined_teams,
                    predefined_teams[GetTeamConfig(predefined_teams,
                                                   team_id)].agents,
                    NewPhase(current_phase, measured))]_vars

\* C32: toggle_agent returns a boolean and lets no exception out, for every
\* name, every action and every failure of a step of it (the construction
\* of the agent, agent.start(), the thread launch, agent.stop())
C32_ToggleNeverRaises ==
    reg_call.op \in {"start", "stop", "restart"} =>
        /\ ~reg_call.raised
        /\ reg_call.ret \in BOOLEAN
        /\ reg_call.site # "none" => ~reg_call.ret

\* a stop whose agent.stop() raised and a call that returned False
C32_Witness ==
    /\ reg_call.op = "stop"
    /\ reg_call.site = "stop"
    /\ ~reg_call.raised
    /\ ~reg_call.ret

\* C34: an admission step that finds free slots moves exactly
\* min(free slots, number waiting) distinct agents from the waiting list to
\* the active list and submits exactly one start for each of them, in the
\* order they are moved; a step that finds no free slot or nobody waiting
\* moves and submits nothing
AdmissionStep == team_pc = "loop" /\ team_pc' = "process"

C34_AdmissionMovesMin ==
    [][AdmissionStep =>
        LET free == max_concurrent_agents - Len(active_agents)
            k == IF free > 0 THEN Min(free, Len(waiting_agents)) ELSE 0
            moved == SubSeq(active_agents', Len(active_agents) + 1,
                            Len(active_agents'))
        IN  /\ Len(active_agents') = Len(active_agents) + k
            /\ Len(waiting_agents') = Len(waiting_agents) - k
            /\ Len(futures') = Len(futures) + k
            /\ SubSeq(active_agents', 1, Len(active_agents)) = active_agents
            /\ SubSeq(futures', 1, Len(futures)) = futures
            /\ \A i, j \in DOMAIN moved : i # j => moved[i] # moved[j]
            /\ Range(waiting_agents') = Range(waiting_agents) \ Range(moved)
            /\ \A i \in DOMAIN moved :
                 /\ moved[i] \in Range(waiting_agents)
                 /\ futures'[Len(futures) + i].agent = moved[i]
                 /\ ~futures'[Len(futures) + i].done]_vars

\* C34 witness: the step has filled every slot, one start is submitted for
\* each active agent and the others still wait
C34_Witness ==
    /\ team_pc = "process"
    /\ Len(active_agents) = max_concurrent_agents
    /\ waiting_agents # <<>>
    /\ Len(futures) = Len(active_agents)
    /\ \A i \in DOMAIN futures :
         futures[i].agent = active_agents[i] /\ ~futures[i].done

\* C35: the collections of a scheduling run (waiting, active, started) are
\* written by the controlling task alone: the step in which a pool worker
\* finishes a start changes none of them (violated: the worker's
\* _start_agent adds the agent to self._active_agents and
\* self._started_agents)
WorkerStartStep ==
    \E i \in DOMAIN futures : ~futures[i].done /\ futures'[i].done

C35_Original ==
    [][WorkerStartStep =>
          UNCHANGED <<collections, waiting_agents, active_agents,
                      started_agents>>]_vars

\* C36: the cleanup of a failed run attempts a stop for every agent of the
\* started list, last started first: an exception raised by the stop of one
\* agent is caught and logged and the stops of the agents started before it
\* are still attempted, and the cleanup itself raises nothing
C36_CleanupStopsAll ==
    /\ team_pc # "cleanup_raised"
    /\ team_pc \in {"cleanup", "cleaned"} =>
          /\ Len(stop_log) <= Len(started_agents)
          /\ stop_log = SubSeq(CleanupStops(started_agents), 1, Len(stop_log))
          /\ Range(cleanup_errors) \subseteq Range(stop_log)
    /\ team_pc = "cleaned" => stop_log = CleanupStops(started_agents)

\* C36 witness: the cleanup has returned; the stop of the agent started
\* last raised and was logged, and the agents started before it were
\* stopped after that
C36_Witness ==
    /\ team_pc = "cleaned"
    /\ Len(started_agents) = max_concurrent_agents
    /\ stop_log = CleanupStops(started_agents)
    /\ cleanup_errors = <<started_agents[Len(started_agents)]>>
    /\ \E i \in DOMAIN started_agents :
         /\ i < Len(started_agents)
         /\ AgentKey(started_agents[i]) \in DOMAIN agents
         /\ started_agents[i] \notin DOMAIN agent_threads

\* C37: throughout an admission loop the waiting and the active list have
\* no agent in common, neither holds an agent twice, both hold only agents
\* of the phase-filtered list, and every filtered agent is in exactly one
\* of them unless it has left both after its start completed
FilteredNames ==
    {EntryName(filtered_agents[i]) : i \in DOMAIN filtered_agents}

NoDuplicate(s) == \A i, j \in DOMAIN s : i # j => s[i] # s[j]

StartCompleted(n) ==
    \E i \in DOMAIN futures : futures[i].agent = n /\ futures[i].done

C37_WaitingActivePartition ==
    /\ Range(waiting_agents) \cap Range(active_agents) = {}
    /\ NoDuplicate(waiting_agents)
    /\ NoDuplicate(active_agents)
    /\ Range(waiting_agents) \cup Range(active_agents) \subseteq FilteredNames
    /\ \A n \in FilteredNames :
         n \notin Range(waiting_agents) \cup Range(active_agents)
            => StartCompleted(n)

\* C37 witness: the loop is being left with every slot taken, agents still
\* waiting and every submitted start completed
C37_Witness ==
    /\ team_pc = "exit"
    /\ waiting_agents # <<>>
    /\ Len(active_agents) = max_concurrent_agents
    /\ Range(waiting_agents) \cup Range(active_agents) = FilteredNames
    /\ \A n \in Range(active_agents) : StartCompleted(n)

\* C38: when a start completes, the agent of that start is the one removed
\* from the active list, once: at the end of a run no agent whose start has
\* completed is still in the active list (violated: the call of
\* _process_completed_agents raises TypeError and removes nothing)
C38_Original ==
    team_pc = "done" =>
        \A i \in DOMAIN futures :
            futures[i].done => futures[i].agent \notin Range(active_agents)

\* C39: the registry operations agree on the identity of an agent: right
\* after toggle_agent(name, 'start') has returned True,
\* get_agent_status(name) with the same name reports the agent as running
\* and the worker thread of the agent is recorded under the name a
\* toggle_agent(name, 'stop') looks it up with, for every name (violated
\* for a name that contains 'agent': the agent is stored under the name
\* without that word and get_agent_status looks for the whole name)
C39_Original ==
    [][\A n \in AgentNames :
         (/\ reg_call'.seq # reg_call.seq
          /\ reg_call'.op = "start"
          /\ reg_call'.name = n
          /\ reg_call'.ret
          /\ ~reg_call'.already)
         => /\ (get_agent_status(n).running)'
            /\ n \in DOMAIN agent_threads'
            /\ threads'[agent_threads'[n]].key = AgentKey(n)]_vars

=============================================================================
